---- MODULE Spec2Model ----
(***************************************************************************)
(* Model of the YouTube ELT warehouse tasks: staging_table, core_table and  *)
(* daily_metrics_table (src/src/elt/dwh/tasks.py), the row primitives      *)
(* insert_rows, update_rows and delete_rows                                *)
(* (src/dags/datawarehouse/data_modification.py), upsert_daily_metrics     *)
(* (src/src/elt/dwh/daily_metrics.py), the duration transform              *)
(* (src/src/elt/dwh/data_transformations.py) and the data-quality scan     *)
(* that reads the tables (src/dags/data_quality/soda.py).                  *)
(*                                                                         *)
(* A Python dict is a TLA+ function whose DOMAIN is the set of keys that   *)
(* are present: row["k"] raises KeyError when "k" is not in the DOMAIN and *)
(* row.get("k") yields None.  A table is a function from the Video_IDs of  *)
(* its rows (the primary key) to the other columns.  Strings that the code *)
(* parses (ISO-8601 durations) are tuples of characters.  The column       *)
(* "Ingested_At" (DEFAULT now(), never written nor read by the tasks'      *)
(* logic) is left out.                                                     *)
(***************************************************************************)
EXTENDS Integers, Sequences, FiniteSets, TLC

VARIABLES
    db,         \* committed rows: [staging, core, metrics]
    tx,         \* the rows as seen inside the running task's open transaction
    ddl,        \* committed DDL: the schemas/tables that exist
    json_file,  \* today's JSON snapshot on disk, written by the ingestion DAG
    run,        \* local state of the task that is running or ran last
    synced,     \* history: per layer, "the last successful run saw this very source"
    scan,       \* what the data-quality scan read last: [schema, rows, before, pending]
    direct,     \* the last direct call of a function on a connection of its own
    overlap     \* two staging_table runs at once: per run its locals and its transaction

vars == <<db, tx, ddl, json_file, run, synced, scan, direct, overlap>>

\* Longest JSON snapshot (number of records) the ingestion writes.
MaxRows == 2

-----------------------------------------------------------------------------
(* Values *)

\* Python None / SQL NULL in a BIGINT column.
NULL == -1

PT33S == <<"P", "T", "3", "3", "S">>
PT60S == <<"P", "T", "6", "0", "S">>
PT61S == <<"P", "T", "6", "1", "S">>
PT15M33S == <<"P", "T", "1", "5", "M", "3", "3", "S">>
NOT_A_DURATION == <<"N", "O", "T", "_", "A", "_", "D", "U", "R", "A", "T", "I", "O", "N">>
PT1M == <<"P", "T", "1", "M">>
PT1M1S == <<"P", "T", "1", "M", "1", "S">>
PT1H1M1S == <<"P", "T", "1", "H", "1", "M", "1", "S">>
P1DT1S == <<"P", "1", "D", "T", "1", "S">>

\* the ISO-8601 durations among them
Durations == {PT33S, PT60S, PT61S, PT15M33S, PT1M, PT1M1S, PT1H1M1S, P1DT1S}

\* Records the content platform API can hand back (a JSON snapshot is a list of them).
RAW_ROW_1 ==
    [video_id |-> "A", title |-> "My Title", publishedAt |-> "2026-01-01",
     duration |-> PT15M33S, viewCount |-> 10, likeCount |-> 2, commentCount |-> 1]
RAW_ROW_1_UPDATED ==
    [video_id |-> "A", title |-> "My Title (Updated)", publishedAt |-> "2026-01-01",
     duration |-> PT33S, viewCount |-> 99, likeCount |-> 7, commentCount |-> 3]
\* the same video after the platform changed its publication time
RAW_ROW_1_REPUBLISHED ==
    [video_id |-> "A", title |-> "Republished", publishedAt |-> "2026-02-02",
     duration |-> PT60S, viewCount |-> 120, likeCount |-> 8, commentCount |-> 4]
\* statistics hidden by the owner: no count keys
RAW_ROW_2 ==
    [video_id |-> "B", title |-> "Second", publishedAt |-> "2026-01-02",
     duration |-> PT61S]
RAW_ROW_2_NO_TITLE ==
    [video_id |-> "B", publishedAt |-> "2026-01-02", duration |-> PT61S,
     viewCount |-> 5, likeCount |-> 0, commentCount |-> 0]
RAW_ROW_NO_ID ==
    [title |-> "Orphan", publishedAt |-> "2026-01-03", duration |-> PT33S,
     viewCount |-> 1, likeCount |-> 1, commentCount |-> 1]
RAW_ROW_EMPTY_ID ==
    [video_id |-> "", title |-> "Orphan", publishedAt |-> "2026-01-03",
     duration |-> PT33S, viewCount |-> 1, likeCount |-> 1, commentCount |-> 1]
\* a record whose duration is no ISO-8601 duration
RAW_ROW_2_BAD_DURATION ==
    [video_id |-> "B", title |-> "Second", publishedAt |-> "2026-01-02",
     duration |-> NOT_A_DURATION, viewCount |-> 7, likeCount |-> 1, commentCount |-> 0]

RawRows ==
    {RAW_ROW_1, RAW_ROW_1_UPDATED, RAW_ROW_1_REPUBLISHED, RAW_ROW_2,
     RAW_ROW_2_NO_TITLE, RAW_ROW_NO_ID, RAW_ROW_EMPTY_ID, RAW_ROW_2_BAD_DURATION}

RECURSIVE SeqsUpTo(_, _)
SeqsUpTo(S, n) ==
    IF n = 0 THEN {<<>>}
    ELSE LET shorter == SeqsUpTo(S, n - 1)
         IN  shorter \cup {Append(s, x) : s \in {q \in shorter : Len(q) = n - 1}, x \in S}

\* The JSON snapshots the ingestion DAG can leave on disk.
Snapshots == SeqsUpTo(RawRows, MaxRows)

EmptyTable == <<>>

-----------------------------------------------------------------------------
(* dict access *)

Has(row, k) == k \in DOMAIN row

\* row.get(k, 0): an absent count defaulted to zero
Get_DefaultsToZero(row, k) == IF Has(row, k) THEN row[k] ELSE 0

\* row.get(k) for a count column
Get(row, k) == IF Has(row, k) THEN row[k] ELSE NULL

\* `row.get(k) is None` instead of `not row.get(k)`
Falsy_AbsentOnly(row, k) == ~Has(row, k)

\* `not row.get(k)` for an id: the key is absent or its value is the empty string
Falsy(row, k) == ~Has(row, k) \/ row[k] = ""

-----------------------------------------------------------------------------
(* isodate.parse_duration, for the designators the platform emits:         *)
(* P[nD][T[nH][nM][nS]] with unsigned integer components.  Anything else   *)
(* raises.                                                                 *)

Digits == {"0", "1", "2", "3", "4", "5", "6", "7", "8", "9"}

DigitVal(c) ==
    CASE c = "0" -> 0 [] c = "1" -> 1 [] c = "2" -> 2 [] c = "3" -> 3 [] c = "4" -> 4
      [] c = "5" -> 5 [] c = "6" -> 6 [] c = "7" -> 7 [] c = "8" -> 8 [] c = "9" -> 9

\* first position at or after i that holds no digit
RECURSIVE NumEnd(_, _)
NumEnd(s, i) == IF i <= Len(s) /\ s[i] \in Digits THEN NumEnd(s, i + 1) ELSE i

\* value of the digits s[i..j-1]
RECURSIVE NumVal(_, _, _)
NumVal(s, i, j) == IF j <= i THEN 0 ELSE NumVal(s, i, j - 1) * 10 + DigitVal(s[j - 1])

\* an optional component "<digits><designator>" at position i
Component(s, i, designator) ==
    LET j == NumEnd(s, i)
    IN  IF j > i /\ j <= Len(s) /\ s[j] = designator
        THEN [val |-> NumVal(s, i, j), next |-> j + 1]
        ELSE [val |-> 0, next |-> i]

\* a parser that takes what it cannot read for a zero duration
ParseFailure_Lenient == [ok |-> TRUE, seconds |-> 0]

\* isodate raises ISO8601Error
ParseFailure == [ok |-> FALSE, seconds |-> 0]

\* [ok, seconds]: the timedelta's total seconds, or the parse raised
parse_duration(s) ==
    IF Len(s) < 2 \/ s[1] # "P" THEN ParseFailure
    ELSE LET d == Component(s, 2, "D")
         IN  IF d.next > Len(s) THEN [ok |-> d.next > 2, seconds |-> d.val * 86400]
             ELSE IF s[d.next] # "T" THEN ParseFailure
             ELSE LET h == Component(s, d.next + 1, "H")
                      m == Component(s, h.next, "M")
                      sec == Component(s, m.next, "S")
                  IN  IF sec.next = Len(s) + 1
                      THEN [ok |-> TRUE,
                            seconds |-> d.val * 86400 + h.val * 3600 + m.val * 60 + sec.val]
                      ELSE ParseFailure

\* parse_duration of the strings above, worked out once
Parsed == [s \in Durations \cup {NOT_A_DURATION} |-> parse_duration(s)]

\* duration = parse_duration(iso_str)
ParseDuration(s) == IF s \in DOMAIN Parsed THEN Parsed[s] ELSE parse_duration(s)

\* The Shorts boundary of transform_duration, in seconds.
ShortsMaxSeconds == 60

\* row["Duration"] instead of row.get("Duration"), and no test for an empty value
transform_duration_RequiresDuration(row) ==
    IF ~Has(row, "Duration") THEN [exc |-> "KeyError", row |-> row]
    ELSE LET duration == ParseDuration(row["Duration"])
         IN  IF ~duration.ok
             THEN [exc |-> "ISO8601Error", row |-> row]
             ELSE [exc |-> "none",
                   row |-> [k \in DOMAIN row \cup {"Duration", "Video_Type"} |->
                              IF k = "Duration" THEN duration.seconds
                              ELSE IF k = "Video_Type"
                                   THEN IF duration.seconds <= ShortsMaxSeconds
                                        THEN "Shorts" ELSE "Normal"
                                   ELSE row[k]]]

\* a boundary that is exclusive on the Shorts side
transform_duration_ExclusiveBoundary(row) ==
    IF ~Has(row, "Duration") \/ row["Duration"] = <<>>
    THEN [exc |-> "none", row |-> row]
    ELSE LET duration == ParseDuration(row["Duration"])
         IN  IF ~duration.ok
             THEN [exc |-> "ISO8601Error", row |-> row]
             ELSE [exc |-> "none",
                   row |-> [k \in DOMAIN row \cup {"Duration", "Video_Type"} |->
                              IF k = "Duration" THEN duration.seconds
                              ELSE IF k = "Video_Type"
                                   THEN IF duration.seconds < ShortsMaxSeconds
                                        THEN "Shorts" ELSE "Normal"
                                   ELSE row[k]]]

\* transform_duration(row): [exc, row].  The row comes back unchanged when its
\* Duration is absent or empty; otherwise Duration becomes the interval (total
\* seconds) and Video_Type is added.
transform_duration(row) ==
    IF ~Has(row, "Duration") \/ row["Duration"] = <<>>
    THEN [exc |-> "none", row |-> row]
    ELSE LET duration == ParseDuration(row["Duration"])
         IN  IF ~duration.ok
             THEN [exc |-> "ISO8601Error", row |-> row]
             ELSE [exc |-> "none",
                   row |-> [k \in DOMAIN row \cup {"Duration", "Video_Type"} |->
                              IF k = "Duration" THEN duration.seconds
                              ELSE IF k = "Video_Type"
                                   THEN IF duration.seconds <= ShortsMaxSeconds
                                        THEN "Shorts" ELSE "Normal"
                                   ELSE row[k]]]

-----------------------------------------------------------------------------
(* insert_rows / update_rows / delete_rows *)

\* keys read with row[...] when the parameters are built
RequiredKeys(layer) ==
    IF layer = "staging" THEN {"video_id", "title", "publishedAt", "duration"}
    ELSE {"Video_ID", "Video_Title", "Upload_Date", "Duration", "Video_Type"}

\* the params dict of insert_rows and update_rows (all required keys present)
Params(layer, row) ==
    IF layer = "staging"
    THEN [video_id |-> row["video_id"],
          video_title |-> row["title"],
          upload_date |-> row["publishedAt"],
          duration |-> row["duration"],
          video_views |-> Get(row, "viewCount"),
          likes_count |-> Get(row, "likeCount"),
          comments_count |-> Get(row, "commentCount")]
    ELSE [video_id |-> row["Video_ID"],
          video_title |-> row["Video_Title"],
          upload_date |-> row["Upload_Date"],
          duration |-> row["Duration"],
          video_type |-> row["Video_Type"],
          video_views |-> Get(row, "Video_Views"),
          likes_count |-> Get(row, "Likes_Count"),
          comments_count |-> Get(row, "Comments_Count")]

\* the columns an INSERT stores under its Video_ID
InsertedColumns(layer, params) ==
    IF layer = "staging"
    THEN [Video_Title |-> params.video_title,
          Upload_Date |-> params.upload_date,
          Duration |-> params.duration,
          Video_Views |-> params.video_views,
          Likes_Count |-> params.likes_count,
          Comments_Count |-> params.comments_count]
    ELSE [Video_Title |-> params.video_title,
          Upload_Date |-> params.upload_date,
          Duration |-> params.duration,
          Video_Type |-> params.video_type,
          Video_Views |-> params.video_views,
          Likes_Count |-> params.likes_count,
          Comments_Count |-> params.comments_count]

\* a SET clause that binds the like and comment counts to each other's parameter
\* (Duration and Video_Type are left as they are)
UpdatedColumns_Swapped(layer, old, params) ==
    [old EXCEPT !.Video_Title = params.video_title,
                !.Video_Views = params.video_views,
                !.Likes_Count = params.comments_count,
                !.Comments_Count = params.likes_count]

\* a SET clause of core that leaves "Video_Type" out
UpdatedColumns_WithoutType(layer, old, params) ==
    [old EXCEPT !.Video_Title = params.video_title,
                !.Duration = params.duration,
                !.Video_Views = params.video_views,
                !.Likes_Count = params.likes_count,
                !.Comments_Count = params.comments_count]

\* the columns of a stored row after the SET clause of the UPDATE
UpdatedColumns(layer, old, params) ==
    IF layer = "staging"
    THEN [old EXCEPT !.Video_Title = params.video_title,
                     !.Duration = params.duration,
                     !.Video_Views = params.video_views,
                     !.Likes_Count = params.likes_count,
                     !.Comments_Count = params.comments_count]
    ELSE [old EXCEPT !.Video_Title = params.video_title,
                     !.Duration = params.duration,
                     !.Video_Type = params.video_type,
                     !.Video_Views = params.video_views,
                     !.Likes_Count = params.likes_count,
                     !.Comments_Count = params.comments_count]

\* WHERE "Video_ID" = %(video_id)s AND "Upload_Date" = %(upload_date)s
UpdateMatches(table, params) ==
    /\ params.video_id \in DOMAIN table
    /\ table[params.video_id].Upload_Date = params.upload_date

\* an insert that passes over a record it cannot map
insert_rows_SkipsUnmappable(table, layer, row, store_ok) ==
    IF ~(RequiredKeys(layer) \subseteq DOMAIN row)
    THEN [exc |-> "none", table |-> table]
    ELSE LET params == Params(layer, row)
         IN  IF ~store_ok \/ params.video_id \in DOMAIN table
             THEN [exc |-> "Error", table |-> table]
             ELSE [exc |-> "none",
                   table |-> table @@ (params.video_id :> InsertedColumns(layer, params))]

\* insert_rows: [exc, table].  store_ok = FALSE is a store failure (connectivity)
\* on the statement; a duplicate primary key is a store failure as well.
insert_rows(table, layer, row, store_ok) ==
    IF layer \notin {"staging", "core"} THEN [exc |-> "ValueError", table |-> table]
    ELSE IF ~(RequiredKeys(layer) \subseteq DOMAIN row)
    THEN [exc |-> "KeyError", table |-> table]
    ELSE LET params == Params(layer, row)
         IN  IF ~store_ok \/ params.video_id \in DOMAIN table
             THEN [exc |-> "Error", table |-> table]
             ELSE [exc |-> "none",
                   table |-> table @@ (params.video_id :> InsertedColumns(layer, params))]

\* an update that takes "no row matched" for a failure
update_rows_RequiresMatch(table, layer, row, store_ok) ==
    IF layer \notin {"staging", "core"} THEN [exc |-> "ValueError", table |-> table]
    ELSE IF ~(RequiredKeys(layer) \subseteq DOMAIN row)
    THEN [exc |-> "KeyError", table |-> table]
    ELSE LET params == Params(layer, row)
         IN  IF ~store_ok \/ ~UpdateMatches(table, params)
             THEN [exc |-> "Error", table |-> table]
             ELSE [exc |-> "none",
                   table |-> [table EXCEPT ![params.video_id] =
                                 UpdatedColumns(layer, @, params)]]

\* an update that logs the store's error and returns
update_rows_Suppresses(table, layer, row, store_ok) ==
    IF layer \notin {"staging", "core"} THEN [exc |-> "ValueError", table |-> table]
    ELSE IF ~(RequiredKeys(layer) \subseteq DOMAIN row)
    THEN [exc |-> "KeyError", table |-> table]
    ELSE LET params == Params(layer, row)
         IN  IF ~store_ok THEN [exc |-> "none", table |-> table]
             ELSE IF UpdateMatches(table, params)
             THEN [exc |-> "none",
                   table |-> [table EXCEPT ![params.video_id] =
                                 UpdatedColumns(layer, @, params)]]
             ELSE [exc |-> "none", table |-> table]

\* update_rows: [exc, table].  An UPDATE that matches no row is not an error.
update_rows(table, layer, row, store_ok) ==
    IF layer \notin {"staging", "core"} THEN [exc |-> "ValueError", table |-> table]
    ELSE IF ~(RequiredKeys(layer) \subseteq DOMAIN row)
    THEN [exc |-> "KeyError", table |-> table]
    ELSE LET params == Params(layer, row)
         IN  IF ~store_ok THEN [exc |-> "Error", table |-> table]
             ELSE IF UpdateMatches(table, params)
             THEN [exc |-> "none",
                   table |-> [table EXCEPT ![params.video_id] =
                                 UpdatedColumns(layer, @, params)]]
             ELSE [exc |-> "none", table |-> table]

\* WHERE "Video_ID" = %s with one id of the list, not ANY(%s)
WithoutIds_One(table, ids) ==
    IF ids = {} THEN table
    ELSE [id \in DOMAIN table \ {CHOOSE x \in ids : TRUE} |-> table[id]]

\* rows of a table without those whose Video_ID is in ids
WithoutIds(table, ids) == [id \in DOMAIN table \ ids |-> table[id]]

\* a foreign key declared without ON DELETE CASCADE and not enforced
Cascade_KeepsSnapshots(metrics, ids) == metrics

\* yt_api_metrics_daily: FOREIGN KEY ("Video_ID") REFERENCES core.yt_api ON DELETE CASCADE
Cascade(metrics, ids) == {m \in metrics : m.Video_ID \notin ids}

\* DELETE FROM the table without the WHERE clause
delete_rows_Truncates(rows, schema, ids_to_delete, store_ok) ==
    IF ~store_ok THEN [exc |-> "Error", rows |-> rows]
    ELSE IF schema = "core"
    THEN [exc |-> "none",
          rows |-> [rows EXCEPT !.core = EmptyTable, !.metrics = {}]]
    ELSE [exc |-> "none", rows |-> [rows EXCEPT ![schema] = EmptyTable]]

\* delete_rows: [exc, rows], on the rows of all tables because of the cascade
delete_rows(rows, schema, ids_to_delete, store_ok) ==
    IF ~store_ok THEN [exc |-> "Error", rows |-> rows]
    ELSE IF schema = "core"
    THEN [exc |-> "none",
          rows |-> [rows EXCEPT !.core = WithoutIds(@, ids_to_delete),
                                !.metrics = Cascade(@, ids_to_delete)]]
    ELSE [exc |-> "none", rows |-> [rows EXCEPT ![schema] = WithoutIds(@, ids_to_delete)]]

-----------------------------------------------------------------------------
(* upsert_daily_metrics *)

\* calendar dates (yyyymmdd) a run's logical date and the wall clock can show
Dates == {20260127, 20260128}

\* the default taken although the caller supplied a date
SnapshotDate_Today(snapshot_date, today) == today

\* `snapshot_date or date.today()`
SnapshotDate(snapshot_date, today) ==
    IF snapshot_date = NULL THEN today ELSE snapshot_date

\* the row in VALUES (...), which ON CONFLICT calls EXCLUDED
Excluded(row, snapshot_date, today) ==
    [Video_ID |-> row["Video_ID"],
     Snapshot_Date |-> SnapshotDate(snapshot_date, today),
     Video_Views |-> Get(row, "Video_Views"),
     Likes_Count |-> Get(row, "Likes_Count"),
     Comments_Count |-> Get(row, "Comments_Count")]

\* ON CONFLICT ("Video_ID") instead of ("Video_ID", "Snapshot_Date")
Conflicting_ByVideoOnly(metrics, excluded) ==
    {m \in metrics : m.Video_ID = excluded.Video_ID}

\* ON CONFLICT ("Video_ID", "Snapshot_Date"): the stored rows with EXCLUDED's key
Conflicting(metrics, excluded) ==
    {m \in metrics : m.Video_ID = excluded.Video_ID
                     /\ m.Snapshot_Date = excluded.Snapshot_Date}

\* ON CONFLICT ... DO NOTHING
upsert_daily_metrics_DoNothing(rows, row, snapshot_date, today, store_ok) ==
    IF ~Has(row, "Video_ID") THEN [exc |-> "KeyError", rows |-> rows]
    ELSE LET excluded == Excluded(row, snapshot_date, today)
             conflict == Conflicting(rows.metrics, excluded)
         IN  IF ~store_ok \/ excluded.Video_ID \notin DOMAIN rows.core
             THEN [exc |-> "Error", rows |-> rows]
             ELSE IF conflict = {}
             THEN [exc |-> "none", rows |-> [rows EXCEPT !.metrics = @ \cup {excluded}]]
             ELSE [exc |-> "none", rows |-> rows]

\* upsert_daily_metrics: [exc, rows].  store_ok = FALSE is a store failure on the
\* statement; a Video_ID that core.yt_api does not hold violates the foreign key.
upsert_daily_metrics(rows, row, snapshot_date, today, store_ok) ==
    IF ~Has(row, "Video_ID") THEN [exc |-> "KeyError", rows |-> rows]
    ELSE LET excluded == Excluded(row, snapshot_date, today)
             conflict == Conflicting(rows.metrics, excluded)
         IN  IF ~store_ok \/ excluded.Video_ID \notin DOMAIN rows.core
             THEN [exc |-> "Error", rows |-> rows]
             ELSE IF conflict = {}
             THEN [exc |-> "none", rows |-> [rows EXCEPT !.metrics = @ \cup {excluded}]]
             ELSE [exc |-> "none",
                   rows |-> [rows EXCEPT !.metrics =
                       (@ \ conflict) \cup
                       {[m EXCEPT !.Video_Views = excluded.Video_Views,
                                  !.Likes_Count = excluded.Likes_Count,
                                  !.Comments_Count = excluded.Comments_Count]
                          : m \in conflict}]]

-----------------------------------------------------------------------------
(* The tasks *)

Layers == {"staging", "core"}

\* key of the identity in a source record of the layer
IdKey(layer) == IF layer = "staging" THEN "video_id" ELSE "Video_ID"

\* the dict RealDictCursor yields for a row of staging.yt_api
FetchedRow(table, id) ==
    [Video_ID |-> id,
     Upload_Date |-> table[id].Upload_Date,
     Video_Title |-> table[id].Video_Title,
     Duration |-> table[id].Duration,
     Video_Views |-> table[id].Video_Views,
     Likes_Count |-> table[id].Likes_Count,
     Comments_Count |-> table[id].Comments_Count]

\* cur.fetchall() of a SELECT without ORDER BY: every row once, in an order the
\* store chooses
FetchAll(table) ==
    {rows \in [1..Cardinality(DOMAIN table) -> {FetchedRow(table, id) : id \in DOMAIN table}] :
        \A m, n \in DOMAIN rows : m # n => rows[m] # rows[n]}

\* core.yt_api_metrics_daily is a set of rows
\* [Video_ID, Snapshot_Date, Video_Views, Likes_Count, Comments_Count]
NoMetrics == {}

NoRows == [staging |-> EmptyTable, core |-> EmptyTable, metrics |-> NoMetrics]

\* no scan yet.  Of a scan: the schema it read, the rows it got and, as history, the
\* rows the table had when the task running at that moment started and whether that
\* task's transaction then held row changes of the table that were not committed.
NotScanned == [schema |-> "none", rows |-> EmptyTable, before |-> EmptyTable,
               pending |-> FALSE]

\* no function called directly yet
NoCall == [fn |-> "none", exc |-> "none"]

\* The two staging_table runs that may overlap.
Runs == {1, 2}

\* locals of such a run before it starts.  put and del are what its open
\* transaction has written and not committed: the rows it inserted or updated, and
\* the Video_IDs it deleted.  new is history: the Video_IDs the run inserted.
NotRunning ==
    [pc |-> "idle", rows |-> <<>>, i |-> 1, table_ids |-> {},
     inserted |-> 0, updated |-> 0, skipped |-> 0, deleted |-> 0,
     exc |-> "none", put |-> EmptyTable, del |-> {}, new |-> {}]

\* locals of a task before it starts.  calls is the sequence of calls the task
\* made on its connection and cursor, in order.  before, resync and retry are
\* history: the committed rows when the task started, "the last successful run of
\* the task saw this very source", and "the run follows a failed run of the same task".
Idle ==
    [task |-> "none", pc |-> "idle", conn |-> "none",
     rows |-> <<>>, i |-> 1, table_ids |-> {}, staging_ids |-> {},
     inserted |-> 0, updated |-> 0, skipped |-> 0, deleted |-> 0,
     exc |-> "none", calls |-> <<>>, before |-> NoRows, resync |-> FALSE,
     retry |-> FALSE, snapshot_date |-> NULL]

Finished == run.pc \in {"idle", "returned", "raised"}

Init ==
    /\ db = NoRows
    /\ tx = NoRows
    /\ ddl = {}
    /\ json_file = [exists |-> FALSE, data |-> <<>>]
    /\ run = Idle
    /\ synced = [staging |-> FALSE, core |-> FALSE]
    /\ scan = NotScanned
    /\ direct = NoCall
    /\ overlap = [r \in Runs |-> NotRunning]

\* A new calendar day: load_data looks for "<channel>_<date.today()>.json", which
\* the ingestion DAG has not written yet, and the load DAG's tasks start afresh.
NewDay ==
    /\ Finished
    /\ json_file.exists
    /\ json_file' = [exists |-> FALSE, data |-> <<>>]
    /\ run' = Idle
    /\ synced' = [synced EXCEPT !.staging = FALSE]
    /\ UNCHANGED <<db, tx, ddl, scan, direct, overlap>>

\* save_video_data_to_json of the ingestion DAG writes today's snapshot.
SaveJson ==
    /\ Finished
    /\ ~json_file.exists
    /\ \E data \in Snapshots : json_file' = [exists |-> TRUE, data |-> data]
    /\ UNCHANGED <<db, tx, ddl, run, synced, scan, direct, overlap>>

\* a retry that resumes at the record where the failed attempt of the task stopped
StartTask_Resumes(layer, connected) ==
    /\ Finished
    /\ layer = "core" => run.task = "staging" /\ run.pc = "returned"
    /\ LET failed == run.pc = "raised" /\ run.task = layer
           resumed == IF run.pc = "raised" /\ run.task = layer THEN run.i ELSE 1
       IN  IF connected
           THEN /\ run' = [Idle EXCEPT !.task = layer, !.pc = "connected", !.conn = "open",
                                       !.calls = <<<<"create_schema">>, <<"commit">>,
                                                   <<"create_table">>, <<"commit">>>>,
                                       !.before = db, !.resync = synced[layer],
                                       !.retry = failed, !.i = resumed]
                /\ ddl' = ddl \cup {layer}
           ELSE /\ run' = [Idle EXCEPT !.task = layer, !.pc = "except", !.exc = "Error",
                                       !.before = db, !.resync = synced[layer],
                                       !.retry = failed]
                /\ ddl' = ddl
    /\ tx' = db
    /\ UNCHANGED <<db, json_file, synced, scan, direct, overlap>>

\* the DDL left in the transaction of the rows: no commit after create_schema and
\* create_table
StartTask_DdlInTransaction(layer, connected) ==
    /\ Finished
    /\ layer = "core" => run.task = "staging" /\ run.pc = "returned"
    /\ LET failed == run.pc = "raised" /\ run.task = layer
       IN  IF connected
           THEN run' = [Idle EXCEPT !.task = layer, !.pc = "connected", !.conn = "open",
                                    !.calls = <<<<"create_schema">>, <<"create_table">>>>,
                                    !.before = db, !.resync = synced[layer],
                                    !.retry = failed]
           ELSE run' = [Idle EXCEPT !.task = layer, !.pc = "except", !.exc = "Error",
                                    !.before = db, !.resync = synced[layer],
                                    !.retry = failed]
    /\ tx' = db
    /\ UNCHANGED <<db, ddl, json_file, synced, scan, direct, overlap>>

\* the two tasks of the load DAG without the dependency between them
StartTask_NoDependency(layer, connected) ==
    /\ Finished
    /\ LET failed == run.pc = "raised" /\ run.task = layer
       IN  IF connected
           THEN /\ run' = [Idle EXCEPT !.task = layer, !.pc = "connected", !.conn = "open",
                                       !.calls = <<<<"create_schema">>, <<"commit">>,
                                                   <<"create_table">>, <<"commit">>>>,
                                       !.before = db, !.resync = synced[layer],
                                       !.retry = failed]
                /\ ddl' = ddl \cup {layer}
           ELSE /\ run' = [Idle EXCEPT !.task = layer, !.pc = "except", !.exc = "Error",
                                       !.before = db, !.resync = synced[layer],
                                       !.retry = failed]
                /\ ddl' = ddl
    /\ tx' = db
    /\ UNCHANGED <<db, json_file, synced, scan, direct, overlap>>

\* The task begins: get_conn_cursor, create_schema, commit, create_table, commit.
\* The load DAG runs staging_table, then core_table once staging_table succeeded.
StartTask(layer, connected) ==
    /\ Finished
    /\ layer = "core" => run.task = "staging" /\ run.pc = "returned"
    /\ LET failed == run.pc = "raised" /\ run.task = layer
       IN  IF connected
           THEN /\ run' = [Idle EXCEPT !.task = layer, !.pc = "connected", !.conn = "open",
                                       !.calls = <<<<"create_schema">>, <<"commit">>,
                                                   <<"create_table">>, <<"commit">>>>,
                                       !.before = db, !.resync = synced[layer],
                                       !.retry = failed]
                /\ ddl' = ddl \cup {layer}
           ELSE /\ run' = [Idle EXCEPT !.task = layer, !.pc = "except", !.exc = "Error",
                                       !.before = db, !.resync = synced[layer],
                                       !.retry = failed]
                /\ ddl' = ddl
    /\ tx' = db
    /\ UNCHANGED <<db, json_file, synced, scan, direct, overlap>>

Raise(exc) == run' = [run EXCEPT !.pc = "except", !.exc = exc]

\* Variable.get("CHANNEL_HANDLE", default_var=None): unset (None, falsy like ""), or
\* the channel's handle
ChannelHandles == {"", "MrCheese"}

\* a snapshot that is not there taken for a snapshot without records
LoadData_EmptyWhenMissing(channel_handle, decodes) ==
    /\ run.task = "staging" /\ run.pc = "connected"
    /\ IF channel_handle = "" THEN Raise("RuntimeError")
       ELSE IF ~json_file.exists THEN run' = [run EXCEPT !.pc = "loaded", !.rows = <<>>]
       ELSE IF ~decodes THEN Raise("JSONDecodeError")
       ELSE run' = [run EXCEPT !.pc = "loaded", !.rows = json_file.data]
    /\ UNCHANGED <<db, tx, ddl, json_file, synced, scan, direct, overlap>>

\* staging_table: raw_data = load_data().  channel_handle is the Airflow Variable;
\* decodes says whether json.load accepts the bytes of today's file.
LoadData(channel_handle, decodes) ==
    /\ run.task = "staging" /\ run.pc = "connected"
    /\ IF channel_handle = "" THEN Raise("RuntimeError")
       ELSE IF ~json_file.exists THEN Raise("FileNotFoundError")
       ELSE IF ~decodes THEN Raise("JSONDecodeError")
       ELSE run' = [run EXCEPT !.pc = "loaded", !.rows = json_file.data]
    /\ UNCHANGED <<db, tx, ddl, json_file, synced, scan, direct, overlap>>

\* table_ids = set(get_video_ids(cur, schema, table))
GetVideoIds ==
    /\ \/ run.task = "staging" /\ run.pc = "loaded"
       \/ run.task = "core" /\ run.pc = "connected"
    /\ run' = [run EXCEPT !.table_ids = DOMAIN tx[run.task],
                          !.calls = Append(@, <<"get_video_ids">>),
                          !.pc = IF run.task = "staging" THEN "loop" ELSE "fetch"]
    /\ UNCHANGED <<db, tx, ddl, json_file, synced, scan, direct, overlap>>

\* core_table: cur.execute(fetch_rows_sql); rows = cur.fetchall()
FetchStagingRows ==
    /\ run.task = "core" /\ run.pc = "fetch"
    /\ \E rows \in FetchAll(tx.staging) :
          run' = [run EXCEPT !.rows = rows,
                             !.calls = Append(@, <<"fetch_rows">>),
                             !.pc = "loop"]
    /\ UNCHANGED <<db, tx, ddl, json_file, synced, scan, direct, overlap>>

\* the loop on a connection in autocommit mode: every statement is committed at once
UpsertRow_Autocommit(store_ok) ==
    /\ run.pc = "loop" /\ run.i <= Len(run.rows)
    /\ LET layer == run.task
           row == run.rows[run.i]
       IN  IF Falsy(row, IdKey(layer))
           THEN /\ run' = [run EXCEPT !.skipped = @ + 1, !.i = @ + 1]
                /\ tx' = tx
           ELSE LET video_id == row[IdKey(layer)]
                    t == IF layer = "core" THEN transform_duration(row)
                         ELSE [exc |-> "none", row |-> row]
                    seen == IF layer = "core" THEN run.staging_ids \cup {video_id}
                            ELSE run.staging_ids
                    exists == video_id \in run.table_ids
                    r == IF exists THEN update_rows(tx[layer], layer, t.row, store_ok)
                         ELSE insert_rows(tx[layer], layer, t.row, store_ok)
                    executed == ~(r.exc \in {"KeyError", "ValueError"})
                    call == <<IF exists THEN "update" ELSE "insert", video_id>>
                IN  IF t.exc # "none"
                    THEN /\ run' = [run EXCEPT !.pc = "except", !.exc = t.exc,
                                               !.staging_ids = seen]
                         /\ tx' = tx
                    ELSE IF r.exc # "none"
                    THEN /\ run' = [run EXCEPT !.pc = "except", !.exc = r.exc,
                                               !.staging_ids = seen,
                                               !.calls = IF executed THEN Append(@, call)
                                                         ELSE @]
                         /\ tx' = tx
                    ELSE /\ run' = [run EXCEPT
                                      !.staging_ids = seen,
                                      !.calls = Append(@, call),
                                      !.updated = IF exists THEN @ + 1 ELSE @,
                                      !.inserted = IF exists THEN @ ELSE @ + 1,
                                      !.table_ids = @ \cup {video_id},
                                      !.i = @ + 1]
                         /\ tx' = [tx EXCEPT ![layer] = r.table]
    /\ db' = tx'
    /\ UNCHANGED <<ddl, json_file, synced, scan, direct, overlap>>

\* a record without identity ends the loop (`break` where the code has `continue`)
UpsertRow_BreaksOnSkip(store_ok) ==
    /\ run.pc = "loop" /\ run.i <= Len(run.rows)
    /\ LET layer == run.task
           row == run.rows[run.i]
       IN  IF Falsy(row, IdKey(layer))
           THEN /\ run' = [run EXCEPT !.skipped = @ + 1, !.i = Len(run.rows) + 1]
                /\ tx' = tx
           ELSE LET video_id == row[IdKey(layer)]
                    t == IF layer = "core" THEN transform_duration(row)
                         ELSE [exc |-> "none", row |-> row]
                    seen == IF layer = "core" THEN run.staging_ids \cup {video_id}
                            ELSE run.staging_ids
                    exists == video_id \in run.table_ids
                    r == IF exists THEN update_rows(tx[layer], layer, t.row, store_ok)
                         ELSE insert_rows(tx[layer], layer, t.row, store_ok)
                    executed == ~(r.exc \in {"KeyError", "ValueError"})
                    call == <<IF exists THEN "update" ELSE "insert", video_id>>
                IN  IF t.exc # "none"
                    THEN /\ run' = [run EXCEPT !.pc = "except", !.exc = t.exc,
                                               !.staging_ids = seen]
                         /\ tx' = tx
                    ELSE IF r.exc # "none"
                    THEN /\ run' = [run EXCEPT !.pc = "except", !.exc = r.exc,
                                               !.staging_ids = seen,
                                               !.calls = IF executed THEN Append(@, call)
                                                         ELSE @]
                         /\ tx' = tx
                    ELSE /\ run' = [run EXCEPT
                                      !.staging_ids = seen,
                                      !.calls = Append(@, call),
                                      !.updated = IF exists THEN @ + 1 ELSE @,
                                      !.inserted = IF exists THEN @ ELSE @ + 1,
                                      !.table_ids = @ \cup {video_id},
                                      !.i = @ + 1]
                         /\ tx' = [tx EXCEPT ![layer] = r.table]
    /\ UNCHANGED <<db, ddl, json_file, synced, scan, direct, overlap>>

\* a record without identity passed over without being counted
UpsertRow_SkipUncounted(store_ok) ==
    /\ run.pc = "loop" /\ run.i <= Len(run.rows)
    /\ LET layer == run.task
           row == run.rows[run.i]
       IN  IF Falsy(row, IdKey(layer))
           THEN /\ run' = [run EXCEPT !.i = @ + 1]
                /\ tx' = tx
           ELSE LET video_id == row[IdKey(layer)]
                    t == IF layer = "core" THEN transform_duration(row)
                         ELSE [exc |-> "none", row |-> row]
                    seen == IF layer = "core" THEN run.staging_ids \cup {video_id}
                            ELSE run.staging_ids
                    exists == video_id \in run.table_ids
                    r == IF exists THEN update_rows(tx[layer], layer, t.row, store_ok)
                         ELSE insert_rows(tx[layer], layer, t.row, store_ok)
                    executed == ~(r.exc \in {"KeyError", "ValueError"})
                    call == <<IF exists THEN "update" ELSE "insert", video_id>>
                IN  IF t.exc # "none"
                    THEN /\ run' = [run EXCEPT !.pc = "except", !.exc = t.exc,
                                               !.staging_ids = seen]
                         /\ tx' = tx
                    ELSE IF r.exc # "none"
                    THEN /\ run' = [run EXCEPT !.pc = "except", !.exc = r.exc,
                                               !.staging_ids = seen,
                                               !.calls = IF executed THEN Append(@, call)
                                                         ELSE @]
                         /\ tx' = tx
                    ELSE /\ run' = [run EXCEPT
                                      !.staging_ids = seen,
                                      !.calls = Append(@, call),
                                      !.updated = IF exists THEN @ + 1 ELSE @,
                                      !.inserted = IF exists THEN @ ELSE @ + 1,
                                      !.table_ids = @ \cup {video_id},
                                      !.i = @ + 1]
                         /\ tx' = [tx EXCEPT ![layer] = r.table]
    /\ UNCHANGED <<db, ddl, json_file, synced, scan, direct, overlap>>

\* the insert branch without table_ids.add(video_id)
UpsertRow_ForgetsInserted(store_ok) ==
    /\ run.pc = "loop" /\ run.i <= Len(run.rows)
    /\ LET layer == run.task
           row == run.rows[run.i]
       IN  IF Falsy(row, IdKey(layer))
           THEN /\ run' = [run EXCEPT !.skipped = @ + 1, !.i = @ + 1]
                /\ tx' = tx
           ELSE LET video_id == row[IdKey(layer)]
                    t == IF layer = "core" THEN transform_duration(row)
                         ELSE [exc |-> "none", row |-> row]
                    seen == IF layer = "core" THEN run.staging_ids \cup {video_id}
                            ELSE run.staging_ids
                    exists == video_id \in run.table_ids
                    r == IF exists THEN update_rows(tx[layer], layer, t.row, store_ok)
                         ELSE insert_rows(tx[layer], layer, t.row, store_ok)
                    executed == ~(r.exc \in {"KeyError", "ValueError"})
                    call == <<IF exists THEN "update" ELSE "insert", video_id>>
                IN  IF t.exc # "none"
                    THEN /\ run' = [run EXCEPT !.pc = "except", !.exc = t.exc,
                                               !.staging_ids = seen]
                         /\ tx' = tx
                    ELSE IF r.exc # "none"
                    THEN /\ run' = [run EXCEPT !.pc = "except", !.exc = r.exc,
                                               !.staging_ids = seen,
                                               !.calls = IF executed THEN Append(@, call)
                                                         ELSE @]
                         /\ tx' = tx
                    ELSE /\ run' = [run EXCEPT
                                      !.staging_ids = seen,
                                      !.calls = Append(@, call),
                                      !.updated = IF exists THEN @ + 1 ELSE @,
                                      !.inserted = IF exists THEN @ ELSE @ + 1,
                                      !.i = @ + 1]
                         /\ tx' = [tx EXCEPT ![layer] = r.table]
    /\ UNCHANGED <<db, ddl, json_file, synced, scan, direct, overlap>>

\* One iteration of `for row in raw_data` / `for row in rows`.
UpsertRow(store_ok) ==
    /\ run.pc = "loop" /\ run.i <= Len(run.rows)
    /\ LET layer == run.task
           row == run.rows[run.i]
       IN  IF Falsy(row, IdKey(layer))
           THEN /\ run' = [run EXCEPT !.skipped = @ + 1, !.i = @ + 1]
                /\ tx' = tx
           ELSE LET video_id == row[IdKey(layer)]
                    t == IF layer = "core" THEN transform_duration(row)
                         ELSE [exc |-> "none", row |-> row]
                    seen == IF layer = "core" THEN run.staging_ids \cup {video_id}
                            ELSE run.staging_ids
                    exists == video_id \in run.table_ids
                    r == IF exists THEN update_rows(tx[layer], layer, t.row, store_ok)
                         ELSE insert_rows(tx[layer], layer, t.row, store_ok)
                    executed == ~(r.exc \in {"KeyError", "ValueError"})
                    call == <<IF exists THEN "update" ELSE "insert", video_id>>
                IN  IF t.exc # "none"
                    THEN /\ run' = [run EXCEPT !.pc = "except", !.exc = t.exc,
                                               !.staging_ids = seen]
                         /\ tx' = tx
                    ELSE IF r.exc # "none"
                    THEN /\ run' = [run EXCEPT !.pc = "except", !.exc = r.exc,
                                               !.staging_ids = seen,
                                               !.calls = IF executed THEN Append(@, call)
                                                         ELSE @]
                         /\ tx' = tx
                    ELSE /\ run' = [run EXCEPT
                                      !.staging_ids = seen,
                                      !.calls = Append(@, call),
                                      !.updated = IF exists THEN @ + 1 ELSE @,
                                      !.inserted = IF exists THEN @ ELSE @ + 1,
                                      !.table_ids = @ \cup {video_id},
                                      !.i = @ + 1]
                         /\ tx' = [tx EXCEPT ![layer] = r.table]
    /\ UNCHANGED <<db, ddl, json_file, synced, scan, direct, overlap>>

\* {r.get("video_id") for r in raw_data if r.get("video_id")}
ids_in_json(raw_data) ==
    {raw_data[n]["video_id"] : n \in {m \in 1..Len(raw_data) : ~Falsy(raw_data[m], "video_id")}}

\* the set difference taken the wrong way round
IdsToDelete_Reversed ==
    IF run.task = "staging"
    THEN ids_in_json(run.rows) \ run.table_ids
    ELSE run.staging_ids \ run.table_ids

\* an empty source taken for "nothing to do"
IdsToDelete_UnlessSourceEmpty ==
    IF run.rows = <<>> THEN {}
    ELSE IF run.task = "staging"
    THEN run.table_ids \ ids_in_json(run.rows)
    ELSE run.table_ids \ run.staging_ids

\* a core reconcile that never prunes
IdsToDelete_StagingOnly ==
    IF run.task = "staging"
    THEN run.table_ids \ ids_in_json(run.rows)
    ELSE {}

\* ids_to_delete of the task, computed after the loop
IdsToDelete ==
    IF run.task = "staging"
    THEN run.table_ids \ ids_in_json(run.rows)
    ELSE run.table_ids \ run.staging_ids

\* delete_rows called without the test `if ids_to_delete`
DeleteStale_AlwaysCalls(store_ok) ==
    /\ run.pc = "loop" /\ run.i > Len(run.rows)
    /\ LET ids_to_delete == IdsToDelete
           r == delete_rows(tx, run.task, ids_to_delete, store_ok)
       IN  IF r.exc # "none"
           THEN /\ run' = [run EXCEPT !.pc = "except", !.exc = r.exc,
                                      !.calls = Append(@, <<"delete", ids_to_delete>>)]
                /\ tx' = tx
           ELSE /\ run' = [run EXCEPT !.pc = "commit",
                                      !.deleted = Cardinality(ids_to_delete),
                                      !.calls = Append(@, <<"delete", ids_to_delete>>)]
                /\ tx' = r.rows
    /\ UNCHANGED <<db, ddl, json_file, synced, scan, direct, overlap>>

\* the delete issued before the loop is through, at whatever record the loop stands
DeleteStale_Early(store_ok) ==
    /\ run.pc = "loop"
    /\ LET ids_to_delete == IdsToDelete
           r == delete_rows(tx, run.task, ids_to_delete, store_ok)
           then == IF run.i > Len(run.rows) THEN "commit" ELSE "loop"
       IN  IF ids_to_delete = {}
           THEN /\ run' = [run EXCEPT !.pc = "commit"]
                /\ tx' = tx
           ELSE IF r.exc # "none"
           THEN /\ run' = [run EXCEPT !.pc = "except", !.exc = r.exc,
                                      !.calls = Append(@, <<"delete", ids_to_delete>>)]
                /\ tx' = tx
           ELSE /\ run' = [run EXCEPT !.pc = then,
                                      !.deleted = Cardinality(ids_to_delete),
                                      !.table_ids = @ \ ids_to_delete,
                                      !.calls = Append(@, <<"delete", ids_to_delete>>)]
                /\ tx' = r.rows
    /\ UNCHANGED <<db, ddl, json_file, synced, scan, direct, overlap>>

\* the deleted ids also taken out of table_ids, which the summary then counts twice
DeleteStale_PrunesKeySet(store_ok) ==
    /\ run.pc = "loop" /\ run.i > Len(run.rows)
    /\ LET ids_to_delete == IdsToDelete
           r == delete_rows(tx, run.task, ids_to_delete, store_ok)
       IN  IF ids_to_delete = {}
           THEN /\ run' = [run EXCEPT !.pc = "commit"]
                /\ tx' = tx
           ELSE IF r.exc # "none"
           THEN /\ run' = [run EXCEPT !.pc = "except", !.exc = r.exc,
                                      !.calls = Append(@, <<"delete", ids_to_delete>>)]
                /\ tx' = tx
           ELSE /\ run' = [run EXCEPT !.pc = "commit",
                                      !.deleted = Cardinality(ids_to_delete),
                                      !.table_ids = @ \ ids_to_delete,
                                      !.calls = Append(@, <<"delete", ids_to_delete>>)]
                /\ tx' = r.rows
    /\ UNCHANGED <<db, ddl, json_file, synced, scan, direct, overlap>>

\* After the loop: the batch delete of the ids that left the source.
DeleteStale(store_ok) ==
    /\ run.pc = "loop" /\ run.i > Len(run.rows)
    /\ LET ids_to_delete == IdsToDelete
           r == delete_rows(tx, run.task, ids_to_delete, store_ok)
       IN  IF ids_to_delete = {}
           THEN /\ run' = [run EXCEPT !.pc = "commit"]
                /\ tx' = tx
           ELSE IF r.exc # "none"
           THEN /\ run' = [run EXCEPT !.pc = "except", !.exc = r.exc,
                                      !.calls = Append(@, <<"delete", ids_to_delete>>)]
                /\ tx' = tx
           ELSE /\ run' = [run EXCEPT !.pc = "commit",
                                      !.deleted = Cardinality(ids_to_delete),
                                      !.calls = Append(@, <<"delete", ids_to_delete>>)]
                /\ tx' = r.rows
    /\ UNCHANGED <<db, ddl, json_file, synced, scan, direct, overlap>>

\* The loop of a task over the records `rows`, from the locals s, when the store
\* accepts every statement: the locals after the last record, or at the record that
\* raised.
RECURSIVE Loop(_, _, _)
Loop(layer, s, rows) ==
    IF rows = <<>> \/ s.exc # "none" THEN s
    ELSE LET row == Head(rows)
         IN  IF Falsy(row, IdKey(layer))
             THEN Loop(layer, [s EXCEPT !.skipped = @ + 1], Tail(rows))
             ELSE LET video_id == row[IdKey(layer)]
                      t == IF layer = "core" THEN transform_duration(row)
                           ELSE [exc |-> "none", row |-> row]
                      seen == IF layer = "core" THEN s.staging_ids \cup {video_id}
                              ELSE s.staging_ids
                      exists == video_id \in s.table_ids
                      r == IF exists THEN update_rows(s.table, layer, t.row, TRUE)
                           ELSE insert_rows(s.table, layer, t.row, TRUE)
                  IN  IF t.exc # "none"
                      THEN [s EXCEPT !.exc = t.exc, !.staging_ids = seen]
                      ELSE IF r.exc # "none"
                      THEN [s EXCEPT !.exc = r.exc, !.staging_ids = seen]
                      ELSE Loop(layer,
                                [s EXCEPT !.table = r.table,
                                          !.staging_ids = seen,
                                          !.updated = IF exists THEN @ + 1 ELSE @,
                                          !.inserted = IF exists THEN @ ELSE @ + 1,
                                          !.table_ids = @ \cup {video_id}],
                                Tail(rows))

\* A whole run of staging_table (rows: the loaded JSON) or core_table (rows: the
\* fetched staging rows) over the committed rows `stored`, when the store accepts
\* every statement: the exception it ends with, the table it commits and the
\* counters it logs.
Reconcile(layer, stored, rows) ==
    LET s == Loop(layer,
                  [table |-> stored[layer], table_ids |-> DOMAIN stored[layer],
                   staging_ids |-> {}, inserted |-> 0, updated |-> 0, skipped |-> 0,
                   exc |-> "none"],
                  rows)
        ids_to_delete == IF layer = "staging" THEN s.table_ids \ ids_in_json(rows)
                         ELSE s.table_ids \ s.staging_ids
        r == delete_rows([stored EXCEPT ![layer] = s.table], layer, ids_to_delete, TRUE)
    IN  IF s.exc # "none"
        THEN [exc |-> s.exc, table |-> stored[layer],
              inserted |-> s.inserted, updated |-> s.updated,
              skipped |-> s.skipped, deleted |-> 0]
        ELSE [exc |-> "none",
              table |-> IF ids_to_delete = {} THEN s.table ELSE r.rows[layer],
              inserted |-> s.inserted, updated |-> s.updated,
              skipped |-> s.skipped, deleted |-> Cardinality(ids_to_delete)]

\* one transaction for the whole load: only the last task of the DAG commits
Commit_OnlyCore ==
    /\ run.pc = "commit"
    /\ db' = IF run.task = "staging" THEN db ELSE tx
    /\ run' = [run EXCEPT !.pc = "returned", !.conn = "closed",
                          !.calls = @ \o <<<<"commit">>, <<"close">>>>]
    /\ synced' = IF run.task = "staging"
                 THEN [staging |-> TRUE, core |-> synced.core /\ tx.staging = db.staging]
                 ELSE IF run.task = "core" THEN [synced EXCEPT !.core = TRUE]
                 ELSE synced
    /\ UNCHANGED <<tx, ddl, json_file, scan, direct, overlap>>

\* conn.commit() after the delete and the summary log line; then the finally
\* clause (close_conn_cursor) and the task returns.
Commit ==
    /\ run.pc = "commit"
    /\ db' = tx
    /\ run' = [run EXCEPT !.pc = "returned", !.conn = "closed",
                          !.calls = @ \o <<<<"commit">>, <<"close">>>>]
    /\ synced' = IF run.task = "staging"
                 THEN [staging |-> TRUE, core |-> synced.core /\ tx.staging = db.staging]
                 ELSE IF run.task = "core" THEN [synced EXCEPT !.core = TRUE]
                 ELSE synced
    /\ UNCHANGED <<tx, ddl, json_file, scan, direct, overlap>>

\* the handler calls conn.commit() where it should roll back
Except_Commits ==
    /\ run.pc = "except"
    /\ db' = tx
    /\ run' = [run EXCEPT !.pc = "raised", !.conn = IF @ = "open" THEN "closed" ELSE @]
    /\ UNCHANGED <<tx, ddl, json_file, synced, scan, direct, overlap>>

\* a handler that rolls back and then swallows the exception
Except_ReturnsNormally ==
    /\ run.pc = "except"
    /\ tx' = db
    /\ run' = [run EXCEPT !.pc = "returned", !.conn = IF @ = "open" THEN "closed" ELSE @,
                          !.calls = IF run.conn = "open"
                                    THEN @ \o <<<<"rollback">>, <<"close">>>> ELSE @]
    /\ UNCHANGED <<db, ddl, json_file, synced, scan, direct, overlap>>

\* handlers without the finally clause: rolled back and raised, never closed
Except_LeavesOpen ==
    /\ run.pc = "except"
    /\ IF run.conn = "open"
       THEN /\ tx' = db
            /\ run' = [run EXCEPT !.pc = "raised", !.calls = Append(@, <<"rollback">>)]
       ELSE /\ tx' = tx
            /\ run' = [run EXCEPT !.pc = "raised"]
    /\ UNCHANGED <<db, ddl, json_file, synced, scan, direct, overlap>>

\* except Error / except Exception: conn.rollback() when there is a connection and
\* raise; on the way out the finally clause closes the connection it has.
Except ==
    /\ run.pc = "except"
    /\ IF run.conn = "open"
       THEN /\ tx' = db
            /\ run' = [run EXCEPT !.pc = "raised", !.conn = "closed",
                                  !.calls = @ \o <<<<"rollback">>, <<"close">>>>]
       ELSE /\ tx' = tx
            /\ run' = [run EXCEPT !.pc = "raised"]
    /\ UNCHANGED <<db, ddl, json_file, synced, scan, direct, overlap>>

-----------------------------------------------------------------------------
(* daily_metrics_table *)

\* The task begins: get_conn_cursor, create_daily_metrics_table, commit,
\* create_daily_metrics_indexes, commit.  The table's foreign key references
\* core.yt_api, so its CREATE fails in the store while core.yt_api does not exist.
StartMetrics(logical_date, connected) ==
    /\ Finished
    /\ LET begun == [Idle EXCEPT !.task = "metrics", !.before = db,
                                 !.snapshot_date = logical_date]
       IN  IF ~connected
           THEN /\ run' = [begun EXCEPT !.pc = "except", !.exc = "Error"]
                /\ ddl' = ddl
           ELSE IF "core" \notin ddl
           THEN /\ run' = [begun EXCEPT !.pc = "except", !.exc = "Error", !.conn = "open",
                                        !.calls = <<<<"create_daily_metrics_table">>>>]
                /\ ddl' = ddl
           ELSE /\ run' = [begun EXCEPT !.pc = "fetch", !.conn = "open",
                                        !.calls = <<<<"create_daily_metrics_table">>,
                                                    <<"commit">>,
                                                    <<"create_daily_metrics_indexes">>,
                                                    <<"commit">>>>]
                /\ ddl' = ddl \cup {"metrics"}
    /\ tx' = db
    /\ UNCHANGED <<db, json_file, synced, scan, direct, overlap>>

\* the dict RealDictCursor yields for a row of core.yt_api in the metrics SELECT
FetchedCounts(table, id) ==
    [Video_ID |-> id,
     Video_Views |-> table[id].Video_Views,
     Likes_Count |-> table[id].Likes_Count,
     Comments_Count |-> table[id].Comments_Count]

\* cur.execute(fetch_rows_sql); rows = cur.fetchall(): every core row once, in an
\* order the store chooses.  With no row the loop body never runs.
FetchCoreRows ==
    /\ run.task = "metrics" /\ run.pc = "fetch"
    /\ \E rows \in {f \in [1..Cardinality(DOMAIN tx.core) ->
                               {FetchedCounts(tx.core, id) : id \in DOMAIN tx.core}] :
                        \A m, n \in DOMAIN f : m # n => f[m] # f[n]} :
          run' = [run EXCEPT !.rows = rows,
                             !.calls = Append(@, <<"fetch_rows">>),
                             !.pc = IF rows = <<>> THEN "commit" ELSE "snapshot"]
    /\ UNCHANGED <<db, tx, ddl, json_file, synced, scan, direct, overlap>>

\* a loop that logs a failed upsert and goes on with the next row
UpsertMetrics_SkipsFailed(store_ok) ==
    /\ run.task = "metrics" /\ run.pc = "snapshot" /\ run.i <= Len(run.rows)
    /\ \E today \in Dates :
          LET row == run.rows[run.i]
              r == upsert_daily_metrics(tx, row, run.snapshot_date, today, store_ok)
          IN  /\ run' = [run EXCEPT !.i = @ + 1,
                                    !.calls = Append(@, <<"upsert", row["Video_ID"]>>),
                                    !.pc = IF run.i = Len(run.rows)
                                           THEN "commit" ELSE "snapshot"]
              /\ tx' = r.rows
    /\ UNCHANGED <<db, ddl, json_file, synced, scan, direct, overlap>>

\* One iteration of `for row in rows`: upsert_daily_metrics(cur, row,
\* snapshot_date=snapshot_date), at whatever date the wall clock shows; after the
\* last row the task goes on to conn.commit().
UpsertMetrics(store_ok) ==
    /\ run.task = "metrics" /\ run.pc = "snapshot" /\ run.i <= Len(run.rows)
    /\ \E today \in Dates :
          LET row == run.rows[run.i]
              r == upsert_daily_metrics(tx, row, run.snapshot_date, today, store_ok)
          IN  IF r.exc # "none"
              THEN /\ run' = [run EXCEPT !.pc = "except", !.exc = r.exc,
                                         !.calls = Append(@, <<"upsert", row["Video_ID"]>>)]
                   /\ tx' = tx
              ELSE /\ run' = [run EXCEPT !.i = @ + 1,
                                         !.calls = Append(@, <<"upsert", row["Video_ID"]>>),
                                         !.pc = IF run.i = Len(run.rows)
                                                THEN "commit" ELSE "snapshot"]
                   /\ tx' = r.rows
    /\ UNCHANGED <<db, ddl, json_file, synced, scan, direct, overlap>>

Next ==
    \/ NewDay
    \/ SaveJson
    \/ \E layer \in Layers, connected \in BOOLEAN : StartTask(layer, connected)
    \/ \E channel_handle \in ChannelHandles, decodes \in BOOLEAN :
          LoadData(channel_handle, decodes)
    \/ GetVideoIds
    \/ FetchStagingRows
    \/ \E store_ok \in BOOLEAN : UpsertRow(store_ok)
    \/ \E store_ok \in BOOLEAN : DeleteStale(store_ok)
    \/ Commit
    \/ Except

Spec == Init /\ [][Next]_vars

-----------------------------------------------------------------------------
(* The load tasks together with the snapshot task.  The ingestion writes       *)
(* snapshots whose records all carry every field and that list a video once.  *)

WellFormedRows == {RAW_ROW_1, RAW_ROW_1_UPDATED, RAW_ROW_2}

WellFormedSnapshots ==
    {data \in SeqsUpTo(WellFormedRows, MaxRows) :
        \A m, n \in 1..Len(data) : m # n => data[m]["video_id"] # data[n]["video_id"]}

SaveJsonWellFormed ==
    /\ Finished
    /\ ~json_file.exists
    /\ \E data \in WellFormedSnapshots :
          json_file' = [exists |-> TRUE, data |-> data]
    /\ UNCHANGED <<db, tx, ddl, run, synced, scan, direct, overlap>>

NextMetrics ==
    \/ NewDay
    \/ SaveJsonWellFormed
    \/ \E layer \in Layers, connected \in BOOLEAN : StartTask(layer, connected)
    \/ \E channel_handle \in ChannelHandles, decodes \in BOOLEAN :
          LoadData(channel_handle, decodes)
    \/ GetVideoIds
    \/ FetchStagingRows
    \/ \E store_ok \in BOOLEAN : UpsertRow(store_ok)
    \/ \E store_ok \in BOOLEAN : DeleteStale(store_ok)
    \/ \E logical_date \in Dates, connected \in BOOLEAN :
          StartMetrics(logical_date, connected)
    \/ FetchCoreRows
    \/ \E store_ok \in BOOLEAN : UpsertMetrics(store_ok)
    \/ Commit
    \/ Except

SpecMetrics == Init /\ [][NextMetrics]_vars

\* a step of the task that is running.  The task's code is synchronous and blocking:
\* each call on the store returns or raises, and the task goes on to its next
\* statement, so a task that can take a step does take it.
TaskStep ==
    \/ \E channel_handle \in ChannelHandles, decodes \in BOOLEAN :
          LoadData(channel_handle, decodes)
    \/ GetVideoIds
    \/ FetchStagingRows
    \/ \E store_ok \in BOOLEAN : UpsertRow(store_ok)
    \/ \E store_ok \in BOOLEAN : DeleteStale(store_ok)
    \/ FetchCoreRows
    \/ \E store_ok \in BOOLEAN : UpsertMetrics(store_ok)
    \/ Commit
    \/ Except

SpecMetricsFair == Init /\ [][NextMetrics]_vars /\ WF_vars(TaskStep)

-----------------------------------------------------------------------------
(* The load tasks with the data-quality scan running beside them.            *)

\* yt_elt_data_quality(schema): `soda scan` reads the table yt_api of the schema on a
\* connection of its own, at any moment, also while a task is running: it sees the
\* committed rows.
Scan(schema) ==
    /\ schema \in ddl
    /\ scan' = [schema |-> schema, rows |-> db[schema],
                before |-> IF Finished THEN db[schema] ELSE run.before[schema],
                pending |-> ~Finished /\ tx[schema] # db[schema]]
    /\ UNCHANGED <<db, tx, ddl, json_file, run, synced, direct, overlap>>

NextScan ==
    \/ NewDay
    \/ SaveJsonWellFormed
    \/ \E layer \in Layers, connected \in BOOLEAN : StartTask(layer, connected)
    \/ \E channel_handle \in ChannelHandles, decodes \in BOOLEAN :
          LoadData(channel_handle, decodes)
    \/ GetVideoIds
    \/ FetchStagingRows
    \/ \E store_ok \in BOOLEAN : UpsertRow(store_ok)
    \/ \E store_ok \in BOOLEAN : DeleteStale(store_ok)
    \/ Commit
    \/ Except
    \/ \E schema \in Layers : Scan(schema)

SpecScan == Init /\ [][NextScan]_vars

-----------------------------------------------------------------------------
(* Two staging_table runs at once.  Nothing in the DAG file or in the task    *)
(* keeps a second run of youtube_db_load from starting while one is running   *)
(* (a manual trigger, a run that outlasts its schedule interval).  Each run   *)
(* has a connection of its own; psycopg2 opens its transaction at the store's *)
(* default isolation, READ COMMITTED: a statement sees the rows committed     *)
(* when it starts and what its own transaction wrote, and it waits for a row  *)
(* or a key that another open transaction has written until that             *)
(* transaction commits or rolls back.                                         *)

Other(r) == 3 - r

\* staging.yt_api as the statements of run r see it
View(r) ==
    LET w == overlap[r]
        kept == DOMAIN db.staging \ w.del
    IN  [id \in kept \cup DOMAIN w.put |->
            IF id \in DOMAIN w.put THEN w.put[id] ELSE db.staging[id]]

\* statements that never wait for another transaction
Locked_Nothing(o) == {}

\* the Video_IDs whose rows or keys the open transaction of run o has written
Locked(o) ==
    IF overlap[o].pc \in {"loop", "commit", "except"}
    THEN DOMAIN overlap[o].put \cup overlap[o].del
    ELSE {}

\* Run r begins: get_conn_cursor, DDL and its commits, raw_data = load_data(),
\* with today's file holding data at that moment.
OverlapStart(r, data) ==
    /\ overlap[r].pc = "idle"
    /\ overlap' = [overlap EXCEPT ![r] = [NotRunning EXCEPT !.pc = "loaded", !.rows = data]]
    /\ ddl' = ddl \cup {"staging"}
    /\ UNCHANGED <<db, tx, json_file, run, synced, scan, direct>>

\* table_ids = set(get_video_ids(cur, schema, table))
OverlapGetVideoIds(r) ==
    /\ overlap[r].pc = "loaded"
    /\ overlap' = [overlap EXCEPT ![r].table_ids = DOMAIN View(r), ![r].pc = "loop"]
    /\ UNCHANGED <<db, tx, ddl, json_file, run, synced, scan, direct>>

\* One iteration of `for row in raw_data` in run r.  The statement waits while the
\* other run's open transaction holds the row (UPDATE) or the key (INSERT).
OverlapUpsertRow(r, store_ok) ==
    LET w == overlap[r]
    IN  /\ w.pc = "loop" /\ w.i <= Len(w.rows)
        /\ LET row == w.rows[w.i]
           IN  IF Falsy(row, "video_id")
               THEN overlap' = [overlap EXCEPT ![r].skipped = @ + 1, ![r].i = @ + 1]
               ELSE LET video_id == row["video_id"]
                        exists == video_id \in w.table_ids
                        view == View(r)
                        waits == /\ video_id \in Locked(Other(r))
                                 /\ exists => video_id \in DOMAIN db.staging
                        res == IF exists THEN update_rows(view, "staging", row, store_ok)
                               ELSE insert_rows(view, "staging", row, store_ok)
                        written == IF exists
                                   THEN UpdateMatches(view, Params("staging", row))
                                   ELSE TRUE
                    IN  /\ ~waits
                        /\ IF res.exc # "none"
                           THEN overlap' = [overlap EXCEPT ![r].pc = "except",
                                                           ![r].exc = res.exc]
                           ELSE overlap' =
                                  [overlap EXCEPT
                                     ![r].updated = IF exists THEN @ + 1 ELSE @,
                                     ![r].inserted = IF exists THEN @ ELSE @ + 1,
                                     ![r].table_ids = @ \cup {video_id},
                                     ![r].i = @ + 1,
                                     ![r].new = IF exists THEN @ ELSE @ \cup {video_id},
                                     ![r].put = IF written
                                                THEN [id \in DOMAIN @ \cup {video_id} |->
                                                        IF id = video_id
                                                        THEN res.table[video_id]
                                                        ELSE @[id]]
                                                ELSE @]
        /\ UNCHANGED <<db, tx, ddl, json_file, run, synced, scan, direct>>

\* After the loop of run r: the batch delete, which waits for the rows the other
\* run's open transaction holds.
OverlapDeleteStale(r, store_ok) ==
    LET w == overlap[r]
        ids_to_delete == w.table_ids \ ids_in_json(w.rows)
        view == View(r)
        res == delete_rows([db EXCEPT !.staging = view], "staging", ids_to_delete, store_ok)
        gone == DOMAIN view \ DOMAIN res.rows.staging
    IN  /\ w.pc = "loop" /\ w.i > Len(w.rows)
        /\ IF ids_to_delete = {}
           THEN overlap' = [overlap EXCEPT ![r].pc = "commit"]
           ELSE /\ ids_to_delete \cap DOMAIN db.staging \cap Locked(Other(r)) = {}
                /\ IF res.exc # "none"
                   THEN overlap' = [overlap EXCEPT ![r].pc = "except", ![r].exc = res.exc]
                   ELSE overlap' =
                          [overlap EXCEPT
                             ![r].pc = "commit",
                             ![r].deleted = Cardinality(ids_to_delete),
                             ![r].del = @ \cup (gone \cap DOMAIN db.staging),
                             ![r].put = [id \in DOMAIN @ \ gone |-> @[id]]]
        /\ UNCHANGED <<db, tx, ddl, json_file, run, synced, scan, direct>>

\* conn.commit() of run r: what its transaction wrote becomes the committed rows.
OverlapCommit(r) ==
    /\ overlap[r].pc = "commit"
    /\ db' = [db EXCEPT !.staging = View(r)]
    /\ overlap' = [overlap EXCEPT ![r].pc = "returned",
                                  ![r].put = EmptyTable, ![r].del = {}]
    /\ UNCHANGED <<tx, ddl, json_file, run, synced, scan, direct>>

\* the handlers of run r: conn.rollback() and raise
OverlapExcept(r) ==
    /\ overlap[r].pc = "except"
    /\ overlap' = [overlap EXCEPT ![r].pc = "raised",
                                  ![r].put = EmptyTable, ![r].del = {}]
    /\ UNCHANGED <<db, tx, ddl, json_file, run, synced, scan, direct>>

\* both runs are over: the next pair may start
OverlapEnds ==
    /\ \A r \in Runs : overlap[r].pc \in {"returned", "raised"}
    /\ overlap' = [r \in Runs |-> NotRunning]
    /\ UNCHANGED <<db, tx, ddl, json_file, run, synced, scan, direct>>

NextOverlap ==
    \/ \E r \in Runs, data \in WellFormedSnapshots : OverlapStart(r, data)
    \/ \E r \in Runs : OverlapGetVideoIds(r)
    \/ \E r \in Runs, store_ok \in BOOLEAN : OverlapUpsertRow(r, store_ok)
    \/ \E r \in Runs, store_ok \in BOOLEAN : OverlapDeleteStale(r, store_ok)
    \/ \E r \in Runs : OverlapCommit(r)
    \/ \E r \in Runs : OverlapExcept(r)
    \/ OverlapEnds

SpecOverlap == Init /\ [][NextOverlap]_vars

-----------------------------------------------------------------------------
(* The functions called directly, one call after the other on a connection  *)
(* and a freshly created table of the caller's own, as the tests under      *)
(* src/tests call them.                                                     *)

\* a staging row as core_table fetches it, with the given Duration
STAGING_ROW(duration) ==
    [Video_ID |-> "A", Upload_Date |-> "2026-01-01", Video_Title |-> "My Title",
     Duration |-> duration, Video_Views |-> 10, Likes_Count |-> 2, Comments_Count |-> 1]

\* a dict without one of its keys
Without(row, k) == [x \in DOMAIN row \ {k} |-> row[x]]

\* the rows transform_duration is called with: every duration, an empty one, one
\* that is none, and rows that have no Duration key
TransformInputs ==
    {STAGING_ROW(d) : d \in Durations \cup {<<>>, NOT_A_DURATION}}
    \cup {[Duration |-> d] : d \in Durations \cup {<<>>}}
    \cup {Without(STAGING_ROW(PT33S), "Duration"), [Video_ID |-> "A"]}

\* records for the staging layer: complete ones, and one without each of its keys
StagingInputs ==
    {RAW_ROW_1, RAW_ROW_1_UPDATED, RAW_ROW_1_REPUBLISHED, RAW_ROW_2}
    \cup {Without(RAW_ROW_1, k) : k \in DOMAIN RAW_ROW_1}

CORE_ROW_1 == transform_duration(STAGING_ROW(PT15M33S)).row
CORE_ROW_1_UPDATED ==
    [transform_duration(STAGING_ROW(PT33S)).row EXCEPT
        !.Video_Title = "My Title (Updated)", !.Video_Views = 99]
CORE_ROW_1_REPUBLISHED == [CORE_ROW_1 EXCEPT !.Upload_Date = "2026-02-02", !.Likes_Count = 8]
CORE_ROW_2 ==
    [Video_ID |-> "B", Upload_Date |-> "2026-01-02", Video_Title |-> "Second",
     Duration |-> 61, Video_Type |-> "Normal"]

\* rows for the core layer: complete ones, and one without each of its keys (a row
\* whose Duration was empty comes out of transform_duration without Video_Type)
CoreInputs ==
    {CORE_ROW_1, CORE_ROW_1_UPDATED, CORE_ROW_1_REPUBLISHED, CORE_ROW_2}
    \cup {Without(CORE_ROW_1, k) : k \in DOMAIN CORE_ROW_1}

\* the layer argument; "raw" is none the functions know
LayerArgs == Layers \cup {"raw"}

InputsOf(layer) == IF layer = "core" THEN CoreInputs ELSE StagingInputs

\* how often insert_rows / update_rows call cur.execute: once, after params and the
\* query were built, whatever the store makes of the statement
Executions(layer, row, store_ok) ==
    IF layer \in Layers /\ RequiredKeys(layer) \subseteq DOMAIN row THEN 1 ELSE 0

\* how often delete_rows calls cur.execute: once, with the whole list as one parameter
DeleteExecutions(ids_to_delete, store_ok) == Cardinality({ids_to_delete})

\* A test begins: the fixture opens a connection, create_table makes the table.
CallCreateTable(layer) ==
    /\ run = Idle
    /\ direct = NoCall /\ ddl = {}
    /\ ddl' = {layer}
    /\ direct' = [fn |-> "create_table", layer |-> layer, exc |-> "none"]
    /\ UNCHANGED <<db, tx, json_file, run, synced, scan, overlap>>

\* transform_duration(row)
CallTransformDuration(row) ==
    /\ run = Idle
    /\ direct.exc = "none"
    /\ LET r == transform_duration(row)
       IN  direct' = [fn |-> "transform_duration", row |-> row, exc |-> r.exc,
                      out |-> r.row]
    /\ UNCHANGED <<db, tx, ddl, json_file, run, synced, scan, overlap>>

\* insert_rows(cur, schema, layer, table, row) on the test's table
CallInsertRows(layer, row, store_ok) ==
    /\ run = Idle
    /\ direct.fn # "none" /\ direct.exc = "none"
    /\ layer \in Layers => layer \in ddl
    /\ LET table == IF layer \in Layers THEN tx[layer] ELSE EmptyTable
           r == insert_rows(table, layer, row, store_ok)
       IN  /\ direct' = [fn |-> "insert_rows", layer |-> layer, row |-> row,
                         store_ok |-> store_ok, before |-> table, exc |-> r.exc,
                         executed |-> Executions(layer, row, store_ok),
                         after |-> r.table]
           /\ tx' = IF layer \in Layers THEN [tx EXCEPT ![layer] = r.table] ELSE tx
    /\ UNCHANGED <<db, ddl, json_file, run, synced, scan, overlap>>

\* update_rows(cur, schema, layer, table, row) on the test's table
CallUpdateRows(layer, row, store_ok) ==
    /\ run = Idle
    /\ direct.fn # "none" /\ direct.exc = "none"
    /\ layer \in Layers => layer \in ddl
    /\ LET table == IF layer \in Layers THEN tx[layer] ELSE EmptyTable
           r == update_rows(table, layer, row, store_ok)
       IN  /\ direct' = [fn |-> "update_rows", layer |-> layer, row |-> row,
                         store_ok |-> store_ok, before |-> table, exc |-> r.exc,
                         executed |-> Executions(layer, row, store_ok),
                         after |-> r.table]
           /\ tx' = IF layer \in Layers THEN [tx EXCEPT ![layer] = r.table] ELSE tx
    /\ UNCHANGED <<db, ddl, json_file, run, synced, scan, overlap>>

\* delete_rows(cur, schema, table, ids_to_delete) on the test's table
CallDeleteRows(schema, ids_to_delete, store_ok) ==
    /\ run = Idle
    /\ direct.fn # "none" /\ direct.exc = "none"
    /\ schema \in ddl
    /\ LET r == delete_rows(tx, schema, ids_to_delete, store_ok)
       IN  /\ direct' = [fn |-> "delete_rows", layer |-> schema,
                         ids_to_delete |-> ids_to_delete, store_ok |-> store_ok,
                         before |-> tx[schema], exc |-> r.exc,
                         executed |-> DeleteExecutions(ids_to_delete, store_ok),
                         after |-> r.rows[schema]]
           /\ tx' = r.rows
    /\ UNCHANGED <<db, ddl, json_file, run, synced, scan, overlap>>

\* The test ends, with its last call returned or raised: the fixture drops the
\* test's schema and closes the connection.
EndTest ==
    /\ run = Idle
    /\ direct.fn # "none"
    /\ direct' = NoCall
    /\ tx' = db
    /\ ddl' = {}
    /\ UNCHANGED <<db, json_file, run, synced, scan, overlap>>

NextCalls ==
    \/ \E layer \in Layers : CallCreateTable(layer)
    \/ \E row \in TransformInputs : CallTransformDuration(row)
    \/ \E layer \in LayerArgs, store_ok \in BOOLEAN :
          \E row \in InputsOf(layer) : CallInsertRows(layer, row, store_ok)
    \/ \E layer \in LayerArgs, store_ok \in BOOLEAN :
          \E row \in InputsOf(layer) : CallUpdateRows(layer, row, store_ok)
    \/ \E schema \in Layers, ids_to_delete \in SUBSET {"A", "B", "C"}, store_ok \in BOOLEAN :
          CallDeleteRows(schema, ids_to_delete, store_ok)
    \/ EndTest

SpecCalls == Init /\ [][NextCalls]_vars

-----------------------------------------------------------------------------
(* Properties.  They speak about the source records in their own terms,    *)
(* not through the operators that model the code.                          *)

Returned == run.pc = "returned"
Raised == run.pc = "raised"

\* the table the finished or running task reconciles, committed / before the run
Target == db[run.task]
TargetBefore == run.before[run.task]

\* a source record carries an identity: the key is there and is not empty
HasIdentity(layer, row) ==
    IF layer = "staging" THEN "video_id" \in DOMAIN row /\ row["video_id"] # ""
    ELSE "Video_ID" \in DOMAIN row /\ row["Video_ID"] # ""

Identity(layer, row) == IF layer = "staging" THEN row["video_id"] ELSE row["Video_ID"]

\* what a record must carry for the layer
RequiredFields(layer) ==
    IF layer = "staging" THEN {"video_id", "title", "publishedAt", "duration"}
    ELSE {"Video_ID", "Video_Title", "Upload_Date", "Duration", "Video_Type"}

\* the upload timestamp of a source record of the layer
UploadTimestamp(layer, row) ==
    IF layer = "staging" THEN row["publishedAt"] ELSE row["Upload_Date"]

\* positions of the source records with an identity, and their ids
ValidPositions(layer, rows) == {n \in 1..Len(rows) : HasIdentity(layer, rows[n])}
ValidIds(layer, rows) == {Identity(layer, rows[n]) : n \in ValidPositions(layer, rows)}

\* the calls of the run that write rows
WriteCalls == {n \in 1..Len(run.calls) : run.calls[n][1] \in {"insert", "update", "delete"}}
CallsOf(kind, id) == {n \in 1..Len(run.calls) : run.calls[n] = <<kind, id>>}

\* C1: after a successful staging_table or core_table run the target's Video_IDs are
\* exactly the truthy identity keys of the run's source records.
C1_FullCoverage ==
    Returned => DOMAIN Target = ValidIds(run.task, run.rows)

\* a successful core run that both added an id and removed one
C1_Witness ==
    /\ Returned /\ run.task = "core"
    /\ DOMAIN TargetBefore \ ValidIds("core", run.rows) # {}
    /\ ValidIds("core", run.rows) \ DOMAIN TargetBefore # {}

\* C2: a run that fails on a row write rolls back: the committed rows are those from
\* before the run, and the transaction holds no write of the run any more.
C2_Atomicity ==
    Raised => db = run.before /\ tx = db

\* a store failure on a row write after an earlier write of the run went through
C2_Witness ==
    /\ Raised /\ run.exc = "Error"
    /\ Cardinality(WriteCalls) >= 2
    /\ DOMAIN TargetBefore # {}

\* what a source record says the columns of its row are (Upload_Date aside)
Count(row, k) == IF k \in DOMAIN row THEN row[k] ELSE NULL

CarriesFields(layer, stored, row) ==
    IF layer = "staging"
    THEN /\ stored.Video_Title = row["title"]
         /\ stored.Duration = row["duration"]
         /\ stored.Video_Views = Count(row, "viewCount")
         /\ stored.Likes_Count = Count(row, "likeCount")
         /\ stored.Comments_Count = Count(row, "commentCount")
    ELSE /\ stored.Video_Title = row["Video_Title"]
         /\ stored.Duration = transform_duration(row).row["Duration"]
         /\ stored.Video_Type = transform_duration(row).row["Video_Type"]
         /\ stored.Video_Views = Count(row, "Video_Views")
         /\ stored.Likes_Count = Count(row, "Likes_Count")
         /\ stored.Comments_Count = Count(row, "Comments_Count")

\* positions of the source records with identity id
PositionsOf(layer, rows, id) ==
    {n \in ValidPositions(layer, rows) : Identity(layer, rows[n]) = id}

\* C3: after a successful run every source record with a valid id has its title,
\* duration, counts and type in the target row of that id, whatever the row held
\* before the run (stated for the ids the source names once; C8 is about the others).
C3_RowsMatchSource ==
    Returned =>
        \A n \in ValidPositions(run.task, run.rows) :
            LET id == Identity(run.task, run.rows[n])
            IN  PositionsOf(run.task, run.rows, id) = {n} =>
                    id \in DOMAIN Target /\ CarriesFields(run.task, Target[id], run.rows[n])

\* C4: a second run over the unchanged source, from the state the first one
\* committed, inserts and deletes nothing, counts one update per valid source record
\* and leaves the table as it was.
C4_Idempotent ==
    Returned /\ run.resync =>
        /\ run.inserted = 0
        /\ run.deleted = 0
        /\ run.updated = Cardinality(ValidPositions(run.task, run.rows))
        /\ Target = TargetBefore

\* a repeated staging run over a snapshot that names one id twice
C4_Witness ==
    /\ Returned /\ run.resync /\ run.task = "staging"
    /\ run.updated = 2
    /\ Cardinality(ValidIds("staging", run.rows)) = 1

\* C5: every id the target held at the start of the run that no valid source record
\* names is gone after the run, and deleted counts exactly those ids.
C5_DeleteOnRemoval ==
    Returned =>
        LET gone == DOMAIN TargetBefore \ ValidIds(run.task, run.rows)
        IN  /\ gone \cap DOMAIN Target = {}
            /\ run.deleted = Cardinality(gone)

\* target {A, B}, source names only one of them: one row deleted, one kept
C5_Witness ==
    /\ Returned
    /\ Cardinality(DOMAIN TargetBefore) = 2
    /\ run.deleted = 1
    /\ Cardinality(DOMAIN Target) = 1
    /\ <<"delete", DOMAIN TargetBefore \ DOMAIN Target>> = run.calls[Len(run.calls) - 2]

\* C6: a source without any record of valid id empties the target: nothing inserted
\* or updated, and deleted is the number of rows the target had.
C6_EmptySourceEmptiesTarget ==
    Returned /\ ValidPositions(run.task, run.rows) = {} =>
        /\ Target = EmptyTable
        /\ run.inserted = 0
        /\ run.updated = 0
        /\ run.deleted = Cardinality(DOMAIN TargetBefore)

\* an empty source met a target of two rows
C6_Witness ==
    /\ Returned /\ run.rows = <<>>
    /\ run.deleted = 2
    /\ Target = EmptyTable

\* the loop is about to process a record without identity
AtRecordWithoutIdentity ==
    /\ run.pc = "loop" /\ run.i <= Len(run.rows)
    /\ ~HasIdentity(run.task, run.rows[run.i])

\* C7: a record whose identity key is absent or falsy is skipped: the loop goes on to
\* the next record with skipped one higher, issues no statement and leaves the other
\* counters and the transaction alone; a run that succeeds has skipped every such
\* record and upserted every other one.
C7_SkipNotAbort ==
    /\ [][AtRecordWithoutIdentity =>
            /\ run'.pc = "loop" /\ run'.i = run.i + 1
            /\ run'.skipped = run.skipped + 1
            /\ run'.calls = run.calls /\ tx' = tx /\ db' = db
            /\ run'.inserted = run.inserted /\ run'.updated = run.updated
            /\ run'.deleted = run.deleted]_vars
    /\ [](Returned =>
            /\ run.skipped = Len(run.rows) - Cardinality(ValidPositions(run.task, run.rows))
            /\ run.inserted + run.updated = Cardinality(ValidPositions(run.task, run.rows)))

\* one record without identity among valid ones, in a run that committed
C7_Witness ==
    /\ Returned /\ run.skipped = 1
    /\ run.inserted + run.updated = 1
    /\ ~HasIdentity(run.task, run.rows[1])
    /\ Identity(run.task, run.rows[2]) \in DOMAIN Target

\* C8: an id that is not in the target and comes twice in the source gets exactly one
\* insert, then exactly one update, and the committed row carries the fields of the
\* second occurrence.
C8_DuplicateTieBreak ==
    Returned =>
        \A id \in ValidIds(run.task, run.rows) \ DOMAIN TargetBefore :
            LET at == PositionsOf(run.task, run.rows, id)
            IN  Cardinality(at) = 2 =>
                    /\ Cardinality(CallsOf("insert", id)) = 1
                    /\ Cardinality(CallsOf("update", id)) = 1
                    /\ \A m \in CallsOf("insert", id), n \in CallsOf("update", id) : m < n
                    /\ \A n \in at : (\E m \in at : m < n) =>
                           CarriesFields(run.task, Target[id], run.rows[n])

\* the loop is about to process a record that has an identity and lacks a field the
\* layer's mapping requires (for core the derived type is missing when there is no
\* duration to derive it from)
AtRecordLackingField ==
    /\ run.pc = "loop" /\ run.i <= Len(run.rows)
    /\ HasIdentity(run.task, run.rows[run.i])
    /\ LET row == run.rows[run.i]
       IN  IF run.task = "staging"
           THEN ~({"title", "publishedAt", "duration"} \subseteq DOMAIN row)
           ELSE \/ ~({"Video_Title", "Upload_Date", "Duration"} \subseteq DOMAIN row)
                \/ row["Duration"] = <<>>

\* C9 as claimed: such a record is skipped on its own and the loop goes on.
C9_SkippedOnItsOwn ==
    [][AtRecordLackingField => run'.pc = "loop" /\ run'.i = run.i + 1]_vars

\* C9 amended: such a record aborts the run.  No statement is executed for it, the
\* exception (KeyError for staging) leaves the loop, and the run ends raised with the
\* committed rows as before the run and nothing of the run left in the transaction.
C9_MissingFieldAborts ==
    /\ [][AtRecordLackingField =>
            /\ run'.pc = "except" /\ run'.exc # "none"
            /\ run.task = "staging" => run'.exc = "KeyError"
            /\ run'.calls = run.calls /\ tx' = tx /\ db' = db]_vars
    /\ [](Raised /\ run.exc = "KeyError" =>
            /\ db = run.before /\ tx = db
            /\ SubSeq(run.calls, Len(run.calls) - 1, Len(run.calls))
                 = <<<<"rollback">>, <<"close">>>>)

\* a record without title ended a run that had already written a row
C9_Witness ==
    /\ Raised /\ run.exc = "KeyError"
    /\ run.inserted + run.updated >= 1
    /\ "title" \notin DOMAIN run.rows[run.i]

\* a string that is no ISO-8601 duration: it does not even begin with the designator P
NotIso8601(s) == s # <<>> /\ Head(s) # "P"

\* the core loop is about to transform a staging row with a malformed duration
AtMalformedDuration ==
    /\ run.task = "core" /\ run.pc = "loop" /\ run.i <= Len(run.rows)
    /\ HasIdentity("core", run.rows[run.i])
    /\ NotIso8601(run.rows[run.i]["Duration"])

\* C10: when transform_duration fails on a malformed duration the core run aborts:
\* the exception leaves the loop before any statement for that row, the transaction
\* is rolled back, no core row written earlier in the run is committed and the
\* exception reaches the caller.
C10_MalformedDurationAborts ==
    /\ [][AtMalformedDuration =>
            /\ run'.pc = "except" /\ run'.exc = "ISO8601Error"
            /\ run'.calls = run.calls /\ tx' = tx /\ db' = db]_vars
    /\ [](run.exc = "ISO8601Error" =>
            /\ run.pc \in {"except", "raised"}
            /\ db = run.before
            /\ Raised => tx = db /\ <<"rollback">> = run.calls[Len(run.calls) - 1])

\* the core run had written a row before it met the malformed duration
C10_Witness ==
    /\ Raised /\ run.task = "core" /\ run.exc = "ISO8601Error"
    /\ run.inserted + run.updated >= 1
    /\ db.core = run.before.core

\* the run has fetched the key set of its target
AfterKeySetFetch == \E n \in 1..Len(run.calls) : run.calls[n] = <<"get_video_ids">>

\* C11: every failure between the key-set fetch and the commit, a store Error or any
\* other exception, ends in the handler: the connection is rolled back, then the
\* exception is raised to the caller.  A run that failed never returns normally and
\* commits no row change: nothing is committed after the key-set fetch.
C11_FailureRollsBackAndRaises ==
    /\ [][run.pc = "except" =>
            /\ run'.pc = "raised" /\ run'.exc = run.exc /\ db' = db
            /\ run.conn = "open" =>
                   /\ tx' = db
                   /\ run'.calls = run.calls \o <<<<"rollback">>, <<"close">>>>]_vars
    /\ [](run.exc # "none" => run.pc \in {"except", "raised"} /\ db = run.before)
    /\ [](Raised /\ AfterKeySetFetch =>
            \A n \in 1..Len(run.calls) :
                run.calls[n] = <<"commit">> =>
                    \E m \in (n + 1)..Len(run.calls) : run.calls[m] = <<"get_video_ids">>)

\* the batch delete failed in the store after the loop had inserted a row
C11_Witness ==
    /\ Raised /\ run.exc = "Error"
    /\ run.inserted >= 1
    /\ run.calls[Len(run.calls) - 2][1] = "delete"
    /\ db = run.before

CoreWithinStaging == DOMAIN db.core \subseteq DOMAIN db.staging

\* C12 as claimed: in every committed state every Video_ID of core.yt_api is in
\* staging.yt_api.
C12_CoreAlwaysWithinStaging == CoreWithinStaging

\* C12 amended: every successful core run leaves the Video_IDs of core.yt_api equal
\* to those of staging.yt_api, and the only step after which a committed core id is
\* missing from staging is the commit of a staging run (which removed ids the core
\* run of that cycle has yet to remove); a failed core run leaves that as it was.
C12_CoreWithinStagingAfterCoreRun ==
    /\ [](Returned /\ run.task = "core" => DOMAIN db.core = DOMAIN db.staging)
    /\ [][CoreWithinStaging /\ ~CoreWithinStaging' =>
            run.task = "staging" /\ run.pc = "commit"]_vars
    /\ [](Raised /\ run.task = "core" =>
            DOMAIN db.core = DOMAIN run.before.core
            /\ DOMAIN db.staging = DOMAIN run.before.staging)

\* a core run removed the id that the staging run of the cycle had dropped
C12_Witness ==
    /\ Returned /\ run.task = "core"
    /\ ~(DOMAIN run.before.core \subseteq DOMAIN run.before.staging)
    /\ run.deleted >= 1
    /\ DOMAIN db.core = DOMAIN db.staging

\* C13: a core_table run that fails and rolls back leaves staging.yt_api as the
\* staging_table run of the cycle committed it (the rows of today's snapshot): no
\* step of a core run changes the committed staging rows, and its rollback undoes
\* none of them.
C13_CoreFailureKeepsStaging ==
    /\ [][run.task = "core" /\ run'.task = "core" => db'.staging = db.staging]_vars
    /\ [](run.task = "core" /\ Raised =>
            /\ db.staging = run.before.staging
            /\ tx.staging = db.staging
            /\ DOMAIN db.staging = ValidIds("staging", json_file.data))

\* the staging run of the cycle had changed staging, and the core run then failed
\* after writing a core row
C13_Witness ==
    /\ run.task = "core" /\ Raised
    /\ run.inserted + run.updated >= 1
    /\ db.staging # EmptyTable
    /\ DOMAIN db.staging # DOMAIN db.core

\* the table a run of the layer's task leaves when nothing fails: the loop's upserts
\* over the source in order, then the delete of the ids no source record names
RECURSIVE UpsertAll(_, _, _)
UpsertAll(layer, table, rows) ==
    IF rows = <<>> THEN table
    ELSE LET row == Head(rows)
         IN  IF ~HasIdentity(layer, row) THEN UpsertAll(layer, table, Tail(rows))
             ELSE LET t == IF layer = "core" THEN transform_duration(row).row ELSE row
                      next == IF Identity(layer, row) \in DOMAIN table
                              THEN update_rows(table, layer, t, TRUE).table
                              ELSE insert_rows(table, layer, t, TRUE).table
                  IN  UpsertAll(layer, next, Tail(rows))

SingleRun(layer, table, rows) ==
    LET upserted == UpsertAll(layer, table, rows)
    IN  [id \in DOMAIN upserted \cap ValidIds(layer, rows) |-> upserted[id]]

\* the next task starts right after a task has raised
RetryStarts == Raised /\ run'.pc \in {"connected", "except"}

\* C15: a failed attempt leaves nothing behind: the task started after it begins
\* from the very rows the failed attempt began from, and a run that succeeds, at the
\* first attempt or at a retry over the same source, commits the table a single pass
\* without failure produces from those rows and that source.
C15_RetrySameAsSingleRun ==
    /\ [][RetryStarts => run'.before = run.before /\ tx' = run.before /\ db' = db]_vars
    /\ [](Returned /\ run.task \in Layers =>
            Target = SingleRun(run.task, TargetBefore, run.rows))

\* a staging run that had failed on this snapshot succeeded at the retry, inserting,
\* updating and deleting
C15_Witness ==
    /\ Returned /\ run.task = "staging" /\ run.retry
    /\ run.inserted >= 1 /\ run.updated >= 1 /\ run.deleted >= 1

\* the run is one of staging_table or core_table
LoadRun == run.task \in Layers

\* positions in the run's calls of the calls of a kind
At(kinds) == {n \in 1..Len(run.calls) : run.calls[n][1] \in kinds}

DdlCalls == {"create_schema", "create_table"}
RowCalls == {"get_video_ids", "fetch_rows", "insert", "update", "delete"}

\* the source records in another order
Reorderings(rows) ==
    {[n \in 1..Len(rows) |-> rows[p[n]]] : p \in Permutations(1..Len(rows))}

\* what the run that returned committed and counted
RunOutcome ==
    [exc |-> "none", table |-> Target, inserted |-> run.inserted,
     updated |-> run.updated, skipped |-> run.skipped, deleted |-> run.deleted]

\* C31 as claimed: a run over the same source records in any other order succeeds as
\* well, commits the same table and counts the same.
C31_OrderIrrelevant ==
    LoadRun /\ Returned =>
        \A rows \in Reorderings(run.rows) :
            Reconcile(run.task, run.before, rows) = RunOutcome

\* C31 amended: a run over the same source records in any other order succeeds as
\* well, counts the same and commits the same Video_IDs, and the same row for every
\* id that one source record names; the row of an id that several records name
\* depends on which of them comes first and which last.  The rows core_table reads
\* from staging name every id once.
C31_OrderIrrelevantButForDuplicates ==
    LoadRun /\ Returned =>
        /\ run.task = "core" =>
               \A id \in ValidIds("core", run.rows) :
                   Cardinality(PositionsOf("core", run.rows, id)) = 1
        /\ \A rows \in Reorderings(run.rows) :
               LET other == Reconcile(run.task, run.before, rows)
               IN  /\ other.exc = "none"
                   /\ other.inserted = run.inserted /\ other.updated = run.updated
                   /\ other.skipped = run.skipped /\ other.deleted = run.deleted
                   /\ DOMAIN other.table = DOMAIN Target
                   /\ \A id \in DOMAIN Target :
                          Cardinality(PositionsOf(run.task, run.rows, id)) = 1 =>
                              other.table[id] = Target[id]

\* a staging run over two records of different videos, of which it inserted one and
\* updated the other, changing its row
C31_Witness ==
    /\ LoadRun /\ Returned /\ run.task = "staging"
    /\ Len(run.rows) = 2
    /\ Cardinality(ValidIds("staging", run.rows)) = 2
    /\ run.inserted = 1 /\ run.updated = 1
    /\ \E id \in DOMAIN Target \cap DOMAIN TargetBefore : Target[id] # TargetBefore[id]

\* C32: the final key-set size a run that succeeded reports, len(table_ids) - deleted,
\* is the number of rows the target table holds after the commit.
C32_ReportedSizeIsRowCount ==
    LoadRun /\ Returned =>
        Cardinality(run.table_ids) - run.deleted = Cardinality(DOMAIN Target)

\* a run that inserted a row, deleted another and left a table with rows
C32_Witness ==
    /\ LoadRun /\ Returned
    /\ run.inserted >= 1 /\ run.deleted >= 1
    /\ Cardinality(DOMAIN Target) >= 1
    /\ Cardinality(run.table_ids) > Cardinality(DOMAIN Target)

\* a task of the load DAG starts
TaskStarts(layer) ==
    Finished /\ run'.task = layer /\ run'.pc \in {"connected", "except"}

\* C34: core_table starts only right after a staging_table run that returned; a
\* staging_table run, whether it succeeds or fails, changes no row of core.yt_api,
\* and after one that failed the core rows are those from before it.
C34_CoreAfterStagingSucceeded ==
    /\ [][TaskStarts("core") => run.task = "staging" /\ Returned]_vars
    /\ [][run.task = "staging" /\ Raised => ~TaskStarts("core")]_vars
    /\ [][run.task = "staging" \/ run'.task = "staging" => db'.core = db.core]_vars
    /\ [](run.task = "staging" /\ Raised => db.core = run.before.core)

\* staging_table failed on a day on which core.yt_api holds rows
C34_Witness ==
    /\ run.task = "staging" /\ Raised
    /\ run.conn = "closed"
    /\ db.core # EmptyTable
    /\ json_file.exists

\* what load_data raises: CHANNEL_HANDLE unset, today's file missing, invalid JSON
LoadErrors == {"RuntimeError", "FileNotFoundError", "JSONDecodeError"}

\* the staging run could not load today's snapshot
LoadFailed == run.task = "staging" /\ run.exc \in LoadErrors

\* C35: a staging_table run that cannot load today's snapshot fails: it has read no
\* key set and written no row, and once it has raised the rows of every table are
\* those from before it.  From a run that is about to load while today's file is
\* missing, the only way on is the failure: the run never goes on with a source of
\* its own making.
C35_LoadFailureWritesNothing ==
    /\ [](LoadFailed =>
            /\ run.pc \in {"except", "raised"}
            /\ At(RowCalls) = {}
            /\ run.rows = <<>> /\ run.deleted = 0
            /\ tx.staging = run.before.staging
            /\ db = run.before)
    /\ [](LoadFailed /\ Raised => run.conn = "closed" /\ tx = db)
    /\ [][run.task = "staging" /\ run.pc = "connected" /\ ~json_file.exists
            /\ run' # run
          => LoadFailed' /\ run'.pc = "except"]_vars

\* staging_table failed for want of today's file while staging.yt_api holds rows
C35_Witness ==
    /\ LoadFailed /\ Raised /\ run.exc = "FileNotFoundError"
    /\ ~json_file.exists
    /\ db.staging # EmptyTable

\* the source records the loop is through with
Processed == SubSeq(run.rows, 1, run.i - 1)

\* C36: whenever the loop stands between two records, and after it, inserted +
\* updated + skipped is the number of source records processed so far, skipped is
\* the number of those without identity and inserted the number of distinct
\* identities among them that the target did not hold when the run started; after a
\* successful run the three counters sum to the length of the source.
C36_CountersPartitionSource ==
    LoadRun /\ run.pc \in {"loop", "commit", "returned"} =>
        /\ run.i - 1 <= Len(run.rows)
        /\ run.inserted + run.updated + run.skipped = run.i - 1
        /\ run.skipped = (run.i - 1) - Cardinality(ValidPositions(run.task, Processed))
        /\ run.inserted = Cardinality(ValidIds(run.task, Processed) \ DOMAIN TargetBefore)
        /\ run.pc \in {"commit", "returned"} =>
               /\ run.inserted + run.updated + run.skipped = Len(run.rows)
               /\ run.inserted
                    = Cardinality(ValidIds(run.task, run.rows) \ DOMAIN TargetBefore)

\* a staging run over a snapshot that names one new video twice: one insert, one
\* update
C36_Witness ==
    /\ LoadRun /\ Returned /\ run.task = "staging"
    /\ Len(run.rows) = 2
    /\ run.inserted = 1 /\ run.updated = 1 /\ run.skipped = 0
    /\ TargetBefore = EmptyTable

\* the row statement the step issues, if it issues one: the call it adds to the
\* run's calls
Issues(kind, id) ==
    /\ LoadRun /\ run.pc = "loop"
    /\ Len(run'.calls) = Len(run.calls) + 1
    /\ run'.calls[Len(run'.calls)] = <<kind, id>>

Ids == {"A", "B"}

\* C37: while the loop runs, table_ids is the set of Video_IDs the target table
\* holds as the run's transaction sees it; an INSERT is issued only for an id the
\* table does not hold, an UPDATE only for one it holds, and an INSERT that went
\* through leaves both the table and table_ids holding the id.
C37_KeySetTracksTable ==
    /\ [](LoadRun /\ run.pc = "loop" => run.table_ids = DOMAIN tx[run.task])
    /\ [][\A id \in Ids :
            /\ Issues("insert", id) =>
                   /\ id \notin DOMAIN tx[run.task]
                   /\ run'.pc = "loop" =>
                          id \in DOMAIN tx'[run.task] /\ id \in run'.table_ids
            /\ Issues("update", id) => id \in DOMAIN tx[run.task]]_vars

\* the loop is through a snapshot that names a new video twice: it inserted the
\* first record and updated with the second
C37_Witness ==
    /\ LoadRun /\ run.pc = "loop" /\ run.task = "staging"
    /\ Len(run.rows) = 2 /\ run.i = 3
    /\ Len(run.calls) = 7
    /\ \E id \in Ids : /\ run.calls[6] = <<"insert", id>>
                        /\ run.calls[7] = <<"update", id>>
                        /\ id \notin DOMAIN TargetBefore

\* C40: after a successful core_table run the value logged as core_before,
\* len(table_ids) + deleted - inserted, is the number of rows core.yt_api held when
\* the run started.
C40_CoreBeforeIsStartCount ==
    Returned /\ run.task = "core" =>
        Cardinality(run.table_ids) + run.deleted - run.inserted
            = Cardinality(DOMAIN run.before.core)

WriteKinds == {"insert", "update", "delete"}

\* the commit of the run's rows, if the run has come to it
FinalCommit == {n \in At({"commit"}) : n > 4}

\* C25: within a run the key-set fetch, and for core the read of the staging rows,
\* comes before the first row write; every insert and update comes before the batch
\* delete; every row write comes before the final commit, and none is issued after it.
C25_ReadsWritesCommit ==
    LoadRun =>
        /\ Cardinality(At({"get_video_ids"})) <= 1 /\ Cardinality(FinalCommit) <= 1
        /\ \A w \in At(WriteKinds) : \E g \in At({"get_video_ids"}) : g < w
        /\ run.task = "core" =>
               /\ \A w \in At(WriteKinds) : \E f \in At({"fetch_rows"}) : f < w
               /\ \A f \in At({"fetch_rows"}) : \E g \in At({"get_video_ids"}) : g < f
        /\ \A u \in At({"insert", "update"}), d \in At({"delete"}) : u < d
        /\ \A w \in At(WriteKinds), c \in FinalCommit : w < c
        /\ Returned => FinalCommit # {}

\* a core run that read the key set and the staging rows, updated a row, deleted
\* another and committed
C25_Witness ==
    /\ LoadRun /\ Returned /\ run.task = "core"
    /\ At({"update"}) = {7} /\ At({"delete"}) = {8}
    /\ At({"get_video_ids"}) = {5} /\ At({"fetch_rows"}) = {6}
    /\ FinalCommit = {Len(run.calls) - 1}

-----------------------------------------------------------------------------
(* Properties of the daily snapshots *)

MetricsRun == run.task = "metrics"

KeysOf(metrics) == {<<m.Video_ID, m.Snapshot_Date>> : m \in metrics}
RowsAt(metrics, id, date) == {m \in metrics : m.Video_ID = id /\ m.Snapshot_Date = date}
OneRowPerKey(metrics) == \A id \in {"A", "B"}, d \in Dates : Cardinality(RowsAt(metrics, id, d)) <= 1

\* a snapshot row carries the counts of the call's row
CarriesCounts(m, row) ==
    /\ m.Video_Views = Count(row, "Video_Views")
    /\ m.Likes_Count = Count(row, "Likes_Count")
    /\ m.Comments_Count = Count(row, "Comments_Count")

\* the step is a call of upsert_daily_metrics that went through
UpsertDone == MetricsRun /\ run.pc = "snapshot" /\ run'.i = run.i + 1

\* C16: the metrics table never holds two rows of one (Video_ID, Snapshot_Date).  An
\* upsert for a key that is not there adds exactly one row; one for a key that is
\* there adds none and overwrites that row's three counts with the call's; either
\* way all other rows stay as they are.
C16_OneRowPerKey ==
    /\ [](OneRowPerKey(db.metrics) /\ OneRowPerKey(tx.metrics))
    /\ [][UpsertDone =>
            LET row == run.rows[run.i]
                had == RowsAt(tx.metrics, row["Video_ID"], run.snapshot_date)
                has == RowsAt(tx'.metrics, row["Video_ID"], run.snapshot_date)
            IN  /\ Cardinality(has) = 1
                /\ \A m \in has : CarriesCounts(m, row)
                /\ Cardinality(tx'.metrics) =
                       Cardinality(tx.metrics) + (IF had = {} THEN 1 ELSE 0)
                /\ tx'.metrics \ has = tx.metrics \ had]_vars

\* a snapshot run over a date it had covered before, after the counts had changed
C16_Witness ==
    /\ MetricsRun /\ Returned
    /\ \E m \in run.before.metrics, n \in db.metrics :
          /\ m.Video_ID = n.Video_ID /\ m.Snapshot_Date = n.Snapshot_Date
          /\ n.Snapshot_Date = run.snapshot_date
          /\ m.Video_Views # n.Video_Views
    /\ Cardinality(db.metrics) = Cardinality(run.before.metrics)

\* C17: a snapshot run issues exactly one upsert for each row of core.yt_api, and
\* every row it writes has the run's logical date as Snapshot_Date, whatever the wall
\* clock shows; the wall-clock date is the snapshot date only of a call that
\* supplies none.
C17_LogicalDate ==
    /\ [](MetricsRun /\ Returned =>
            /\ \A id \in DOMAIN db.core :
                  /\ Cardinality(CallsOf("upsert", id)) = 1
                  /\ \E m \in RowsAt(db.metrics, id, run.snapshot_date) :
                        CarriesCounts(m, db.core[id])
            /\ Cardinality({n \in 1..Len(run.calls) : run.calls[n][1] = "upsert"})
                 = Cardinality(DOMAIN db.core))
    /\ [](MetricsRun =>
            \A m \in tx.metrics \ run.before.metrics : m.Snapshot_Date = run.snapshot_date)
    /\ [](\A id \in DOMAIN db.core, d \in Dates \cup {NULL}, today \in Dates :
            LET r == upsert_daily_metrics([db EXCEPT !.metrics = NoMetrics],
                                          FetchedCounts(db.core, id), d, today, TRUE)
            IN  \A m \in r.rows.metrics :
                    m.Snapshot_Date = today <=> (d = NULL \/ d = today))

\* a backfill: the run's logical date is the earlier one, the table already holds
\* snapshots of the later one, and two core rows were snapshot
C17_Witness ==
    /\ MetricsRun /\ Returned
    /\ run.snapshot_date = 20260127
    /\ \E m \in run.before.metrics : m.Snapshot_Date = 20260128
    /\ Cardinality(db.metrics \ run.before.metrics) = 2

\* C18: every snapshot row references a Video_ID of core.yt_api, committed and in the
\* open transaction.  The batch delete of a core run removes, with the core rows, all
\* snapshots of their ids and no other; committed snapshots disappear at the commit
\* of a core run only, and only those of the ids that left core.
C18_SnapshotsFollowCore ==
    /\ [](\A m \in db.metrics : m.Video_ID \in DOMAIN db.core)
    /\ [](\A m \in tx.metrics : m.Video_ID \in DOMAIN tx.core)
    /\ [][run.task = "core" /\ run.pc = "loop" /\ run'.pc = "commit" =>
            tx'.metrics = {m \in tx.metrics : m.Video_ID \in DOMAIN tx'.core}]_vars
    /\ [][~(KeysOf(db.metrics) \subseteq KeysOf(db'.metrics)) =>
            /\ run.task = "core" /\ run.pc = "commit"
            /\ \A k \in KeysOf(db.metrics) \ KeysOf(db'.metrics) :
                  k[1] \in DOMAIN db.core \ DOMAIN db'.core]_vars

\* a core run removed a video that had snapshots of both dates, and kept another
C18_Witness ==
    /\ run.task = "core" /\ Returned /\ run.deleted = 1
    /\ \E id \in DOMAIN run.before.core \ DOMAIN db.core :
          /\ RowsAt(run.before.metrics, id, 20260127) # {}
          /\ RowsAt(run.before.metrics, id, 20260128) # {}
          /\ \A m \in db.metrics : m.Video_ID # id
    /\ db.metrics # NoMetrics

\* the rows of a metrics table that are not of the date
OtherDates(metrics, date) == {m \in metrics : m.Snapshot_Date # date}

\* C19: a snapshot run deletes no snapshot and changes no row of another date: with
\* every statement of the run the keys in its transaction only grow and the rows of
\* other dates stay as they are, and so do the committed ones over the whole run.
C19_AppendOrOverwriteOnly ==
    /\ [][MetricsRun /\ run.pc = "snapshot" /\ run'.pc # "except" =>
            /\ KeysOf(tx.metrics) \subseteq KeysOf(tx'.metrics)
            /\ OtherDates(tx'.metrics, run.snapshot_date)
                 = OtherDates(tx.metrics, run.snapshot_date)]_vars
    /\ [](MetricsRun =>
            /\ KeysOf(run.before.metrics) \subseteq KeysOf(db.metrics)
            /\ OtherDates(db.metrics, run.snapshot_date)
                 = OtherDates(run.before.metrics, run.snapshot_date))

\* the table held a snapshot of the other date whose counts differ from today's
C19_Witness ==
    /\ MetricsRun /\ Returned
    /\ \E m \in run.before.metrics, n \in db.metrics \ run.before.metrics :
          /\ m.Video_ID = n.Video_ID
          /\ m.Snapshot_Date # run.snapshot_date
          /\ n.Snapshot_Date = run.snapshot_date
          /\ m.Video_Views # n.Video_Views
          /\ m \in db.metrics

\* C20: the upserts of one snapshot run are one transaction: nothing is committed
\* while the loop runs; a run that returned has committed a snapshot of every row it
\* fetched; a run that failed has rolled back and raised, and the committed table is
\* the one from before the run.
C20_SnapshotsCommittedTogether ==
    /\ [][MetricsRun /\ run.pc = "snapshot" => db' = db]_vars
    /\ [](MetricsRun /\ Returned =>
            \A n \in 1..Len(run.rows) :
                \E m \in RowsAt(db.metrics, run.rows[n]["Video_ID"], run.snapshot_date) :
                    CarriesCounts(m, run.rows[n]))
    /\ [](MetricsRun /\ run.exc # "none" =>
            /\ run.pc \in {"except", "raised"}
            /\ db = run.before
            /\ Raised => tx = db)
    /\ [](MetricsRun /\ Raised /\ run.conn = "closed" =>
            SubSeq(run.calls, Len(run.calls) - 1, Len(run.calls))
              = <<<<"rollback">>, <<"close">>>>)

\* the second upsert of the run failed after the first had written a new snapshot
C20_Witness ==
    /\ MetricsRun /\ Raised /\ run.exc = "Error"
    /\ run.i = 2 /\ Len(run.rows) = 2
    /\ RowsAt(run.before.metrics, run.rows[1]["Video_ID"], run.snapshot_date) = {}
    /\ db.metrics = run.before.metrics

\* the ids the target held when the run started that no source record names
Stale == DOMAIN TargetBefore \ ValidIds(run.task, run.rows)

\* C27: a reconcile run calls delete_rows at most once, after the upsert loop has gone
\* through every source record, only when there are ids to delete, and with all of
\* them in that one call, which is one statement; a run that comes to its commit
\* without the call had nothing to delete.
C27_OneBatchDelete ==
    LoadRun =>
        /\ Cardinality(At({"delete"})) <= 1
        /\ \A n \in At({"delete"}) :
              /\ run.i = Len(run.rows) + 1
              /\ Cardinality(At({"insert", "update"})) + run.skipped = Len(run.rows)
              /\ \A u \in At({"insert", "update"}) : u < n
              /\ run.calls[n][2] # {}
              /\ run.calls[n][2] = Stale
              /\ DeleteExecutions(run.calls[n][2], TRUE) = 1
        /\ run.pc \in {"commit", "returned"} /\ At({"delete"}) = {} => Stale = {}

\* a run whose source had a record without identity and none of the two ids of the
\* target: both left in one call
C27_Witness ==
    /\ LoadRun /\ Returned /\ run.skipped >= 1
    /\ At({"delete"}) = {Len(run.calls) - 2}
    /\ run.calls[Len(run.calls) - 2] = <<"delete", {"A", "B"}>>
    /\ Target = EmptyTable

\* the key set when the loop is at record n: the ids the target held when the run
\* started and those of the valid records before n
KeySetAt(n) ==
    DOMAIN TargetBefore
    \cup {Identity(run.task, run.rows[m]) :
            m \in {k \in ValidPositions(run.task, run.rows) : k < n}}

\* the valid records before position upto whose id was in the key set at their turn
KeyedBefore(upto) ==
    {n \in ValidPositions(run.task, run.rows) :
        n < upto /\ Identity(run.task, run.rows[n]) \in KeySetAt(n)}

\* the loop is at a valid record whose id is in the key set
AtKeyedRecord ==
    /\ LoadRun /\ run.pc = "loop" /\ run.i <= Len(run.rows)
    /\ HasIdentity(run.task, run.rows[run.i])
    /\ Identity(run.task, run.rows[run.i]) \in KeySetAt(run.i)

\* the record the loop is at can be mapped for the layer
AtMappableRecord ==
    LET row == run.rows[run.i]
    IN  IF run.task = "staging" THEN RequiredFields("staging") \subseteq DOMAIN row
        ELSE /\ {"Video_ID", "Video_Title", "Upload_Date", "Duration"} \subseteq DOMAIN row
             /\ row["Duration"] \in Durations

\* no row of the target, as the transaction sees it, has the id and the upload
\* timestamp of the record the loop is at, or the one that has them holds the
\* record's values already: the record's UPDATE changes nothing
UpdateChangesNothing ==
    LET row == run.rows[run.i]
        id == Identity(run.task, row)
        table == tx[run.task]
    IN  \/ id \notin DOMAIN table
        \/ table[id].Upload_Date # UploadTimestamp(run.task, row)
        \/ CarriesFields(run.task, table[id], row)

\* C30: an update that matches no row or changes no value raises no error, and the
\* run counts the record as updated all the same: updated counts every valid source
\* record whose id was in the key set at its turn, however many rows its statement
\* affected.
C30_UpdatedCountsStatements ==
    /\ [](LoadRun => run.updated = Cardinality(KeyedBefore(run.i)))
    /\ [][AtKeyedRecord /\ run'.pc = "loop" =>
            /\ run'.updated = run.updated + 1
            /\ run'.inserted = run.inserted
            /\ run'.calls = Append(run.calls,
                                   <<"update", Identity(run.task, run.rows[run.i])>>)]_vars
    /\ [](AtKeyedRecord /\ AtMappableRecord /\ UpdateChangesNothing =>
            ENABLED <<UpsertRow(TRUE) /\ run'.pc = "loop" /\ tx' = tx
                      /\ run'.updated = run.updated + 1>>_vars)

\* a staging run whose only record had the id of a stored row and another upload
\* timestamp: counted as updated, the row as it was
C30_Witness ==
    /\ LoadRun /\ Returned /\ run.task = "staging"
    /\ Len(run.rows) = 1 /\ run.updated = 1
    /\ Target = TargetBefore
    /\ run.rows[1]["video_id"] \in DOMAIN Target
    /\ run.rows[1]["publishedAt"] # Target[run.rows[1]["video_id"]].Upload_Date
    /\ run.rows[1]["title"] # Target[run.rows[1]["video_id"]].Video_Title

\* C26: every run that obtained a connection eventually closes its cursor and
\* connection, exactly once and as the last thing it does, right after its commit
\* (when it succeeds) or its rollback (on every failure); no run ends with its
\* connection open, and a run that obtained none closes none.
C26_ConnectionClosed ==
    /\ [](Finished => run.conn # "open")
    /\ [](run.conn = "closed" =>
            /\ Finished
            /\ At({"close"}) = {Len(run.calls)}
            /\ run.calls[Len(run.calls) - 1] =
                   (IF Returned THEN <<"commit">> ELSE <<"rollback">>))
    /\ [](run.conn # "closed" => At({"close"}) = {})
    /\ [](Finished /\ run.pc # "idle" /\ run.conn = "none" =>
            Raised /\ run.calls = <<>>)
    /\ (run.conn = "open" ~> run.conn = "closed")

\* the snapshot task failed creating its table: rolled back, closed, raised
C26_Witness ==
    /\ MetricsRun /\ Raised /\ run.conn = "closed"
    /\ run.calls = <<<<"create_daily_metrics_table">>, <<"rollback">>, <<"close">>>>

-----------------------------------------------------------------------------
(* Properties of concurrent reads *)

\* C14: a reader of a target table beside a running task sees the table as it was
\* before the run, and after the run's commit the table the whole run produced,
\* never part of the run's inserts, updates and deletes: what a scan reads while a
\* task runs is the table from before that run, also when the task's transaction
\* holds uncommitted changes of it, and the committed rows change in one step, the
\* commit, to the rows of the complete transaction.
C14_NoPartialRead ==
    /\ [](scan.rows = scan.before)
    /\ [][scan' # scan /\ ~Finished =>
            /\ scan'.rows = run.before[scan'.schema]
            /\ scan'.pending => scan'.rows # tx[scan'.schema]]_vars
    /\ [][db' # db => run.pc = "commit" /\ db' = tx /\ run'.pc = "returned"]_vars

\* the scan read staging while the staging run had uncommitted changes of it, and
\* got the rows from before the run
C14_Witness ==
    /\ scan.pending /\ scan.schema = "staging"
    /\ scan.rows # EmptyTable
    /\ run.task = "staging" /\ run.pc = "loop" /\ run.i = 2
    /\ scan.rows = run.before.staging /\ tx.staging # scan.rows

\* the reconciliation of the schema in the current cycle of the load DAG has
\* committed and no run on the schema is in progress: for staging, staging_table
\* returned (core_table starts only after that); for core, core_table returned
ReconciledThisCycle(schema) ==
    IF schema = "staging"
    THEN (run.task = "staging" /\ Returned) \/ run.task = "core"
    ELSE run.task = "core" /\ Returned

\* C33: the data-quality scan of a schema starts only after that cycle's
\* reconciliation of the schema has committed, never while it is in progress.
C33_ScanAfterCommit ==
    [][\A schema \in Layers : Scan(schema) => ReconciledThisCycle(schema)]_vars

-----------------------------------------------------------------------------
(* Properties of the functions called directly *)

DirectCall(fn) == direct.fn = fn

\* the total seconds an ISO-8601 duration denotes, written out for Durations
IsoSeconds(d) ==
    CASE d = PT33S -> 33
      [] d = PT60S -> 60
      [] d = PT61S -> 61
      [] d = PT15M33S -> 15 * 60 + 33
      [] d = PT1M -> 60
      [] d = PT1M1S -> 61
      [] d = PT1H1M1S -> 3600 + 60 + 1
      [] d = P1DT1S -> 24 * 3600 + 1

\* transform_duration was called with a row that has an ISO-8601 duration
TransformedDuration ==
    /\ DirectCall("transform_duration")
    /\ "Duration" \in DOMAIN direct.row
    /\ direct.row["Duration"] \in Durations

\* C21: transform_duration labels a record "Shorts" exactly when its duration is at
\* most 60 seconds in total and "Normal" otherwise (60 s is Shorts, 61 s is Normal,
\* PT15M33S is 933 s and Normal), and the Duration it stores has the total seconds of
\* the ISO-8601 input.
C21_ShortsBoundary ==
    TransformedDuration =>
        LET iso == direct.row["Duration"]
        IN  /\ direct.exc = "none"
            /\ direct.out["Duration"] = IsoSeconds(iso)
            /\ direct.out["Video_Type"] = "Shorts" <=> IsoSeconds(iso) <= 60
            /\ direct.out["Video_Type"] = "Normal" <=> IsoSeconds(iso) > 60
            /\ iso = PT60S => direct.out["Video_Type"] = "Shorts"
            /\ iso = PT61S => direct.out["Video_Type"] = "Normal"
            /\ iso = PT15M33S =>
                   direct.out["Duration"] = 933 /\ direct.out["Video_Type"] = "Normal"

\* one minute, written in minutes, is Shorts
C21_Witness ==
    /\ TransformedDuration
    /\ direct.row["Duration"] = PT1M
    /\ direct.out["Duration"] = 60
    /\ direct.out["Video_Type"] = "Shorts"

\* transform_duration was called with a row whose Duration is absent or empty
TransformedWithoutDuration ==
    /\ DirectCall("transform_duration")
    /\ "Duration" \notin DOMAIN direct.row \/ direct.row["Duration"] = <<>>

\* C22: when the Duration of a record is absent or empty, transform_duration returns
\* the record with every field unchanged, adds no Video_Type and raises no error.
C22_NoDurationNoLabel ==
    TransformedWithoutDuration =>
        /\ direct.exc = "none"
        /\ direct.out = direct.row
        /\ "Video_Type" \notin DOMAIN direct.out

\* a staging row with all its columns and an empty Duration came back as it was
C22_Witness ==
    /\ TransformedWithoutDuration
    /\ direct.row = STAGING_ROW(<<>>)
    /\ direct.out = STAGING_ROW(<<>>)

\* insert_rows or update_rows was called for one of the two layers
MappingCall == direct.fn \in {"insert_rows", "update_rows"} /\ direct.layer \in Layers

\* the row the call's statement stored or changed, if any
Affected ==
    LET id == Identity(direct.layer, direct.row)
    IN  IF direct.exc # "none" THEN {}
        ELSE IF direct.fn = "insert_rows" THEN {id}
        ELSE {x \in {id} \cap DOMAIN direct.before :
                 direct.before[x].Upload_Date
                   = UploadTimestamp(direct.layer, direct.row)}

\* the stored row holds the record's counts, NULL for an absent one
StoredCounts(layer, stored, row) ==
    IF layer = "staging"
    THEN /\ stored.Video_Views = Count(row, "viewCount")
         /\ stored.Likes_Count = Count(row, "likeCount")
         /\ stored.Comments_Count = Count(row, "commentCount")
    ELSE /\ stored.Video_Views = Count(row, "Video_Views")
         /\ stored.Likes_Count = Count(row, "Likes_Count")
         /\ stored.Comments_Count = Count(row, "Comments_Count")

\* C23: when insert_rows or update_rows maps a record, an absent view, like or
\* comment count becomes a NULL parameter and the statement is executed all the same;
\* an absent required field (id, title, upload timestamp, duration, for core also the
\* type) makes the call raise before any statement is executed, and nothing is put
\* in the field's place.
C23_CountsOptionalFieldsRequired ==
    MappingCall =>
        IF RequiredFields(direct.layer) \subseteq DOMAIN direct.row
        THEN /\ direct.executed = 1
             /\ direct.exc \in {"none", "Error"}
             /\ \A id \in Affected :
                    /\ id \in DOMAIN direct.after
                    /\ StoredCounts(direct.layer, direct.after[id], direct.row)
        ELSE /\ direct.executed = 0
             /\ direct.exc = "KeyError"
             /\ direct.after = direct.before

\* update_rows for a record without likeCount put NULL where the row held a count
C23_Witness ==
    /\ MappingCall /\ direct.fn = "update_rows" /\ direct.exc = "none"
    /\ direct.layer = "staging" /\ "likeCount" \notin DOMAIN direct.row
    /\ Affected = {"A"}
    /\ direct.before["A"].Likes_Count = 2
    /\ direct.after["A"].Likes_Count = NULL
    /\ direct.after["A"].Video_Views = 10

\* C28: delete_rows removes exactly the rows whose Video_ID is in the given list and
\* leaves every other row of the table present and unchanged.
C28_DeletesOnlyListed ==
    DirectCall("delete_rows") /\ direct.exc = "none" =>
        /\ DOMAIN direct.after = DOMAIN direct.before \ direct.ids_to_delete
        /\ \A id \in DOMAIN direct.before \ direct.ids_to_delete :
              id \in DOMAIN direct.after /\ direct.after[id] = direct.before[id]

\* of two rows one was listed, together with an id the table does not hold
C28_Witness ==
    /\ DirectCall("delete_rows") /\ direct.exc = "none"
    /\ DOMAIN direct.before = {"A", "B"}
    /\ direct.ids_to_delete = {"A", "C"}
    /\ DOMAIN direct.after = {"B"}

PrimitiveCall == direct.fn \in {"insert_rows", "update_rows", "delete_rows"}

\* the call got as far as its statement: delete_rows always does, insert_rows and
\* update_rows do when the layer is one of the two and the record maps (C23)
ReachedStatement ==
    \/ direct.fn = "delete_rows"
    \/ direct.layer \in Layers /\ RequiredFields(direct.layer) \subseteq DOMAIN direct.row

\* the store raised on the statement: it failed, or the INSERT met a row of its id
StoreRaised ==
    /\ ReachedStatement
    /\ \/ ~direct.store_ok
       \/ /\ direct.fn = "insert_rows"
          /\ Identity(direct.layer, direct.row) \in DOMAIN direct.before

\* C29: insert_rows, update_rows and delete_rows execute exactly one statement in a
\* call that gets as far as its statement (and none in a call that raises before it,
\* on an unknown layer or an absent required field); when the store raises on the
\* statement the call raises that error to its caller: the statement is not tried
\* again, the error is not suppressed, and the table is as before the call.
C29_OneStatementErrorsPropagate ==
    PrimitiveCall =>
        /\ direct.executed = (IF ReachedStatement THEN 1 ELSE 0)
        /\ StoreRaised => direct.exc = "Error" /\ direct.after = direct.before
        /\ ReachedStatement /\ ~StoreRaised => direct.exc = "none"
        /\ ~ReachedStatement => direct.exc \in {"KeyError", "ValueError"}

\* an INSERT of an id the table holds: the store's error came out of insert_rows
C29_Witness ==
    /\ DirectCall("insert_rows") /\ direct.store_ok
    /\ StoreRaised
    /\ direct.exc = "Error" /\ direct.executed = 1
    /\ DOMAIN direct.before = {"A", "B"}

-----------------------------------------------------------------------------
(* Properties of the rows of core.yt_api *)

\* the type a duration of that many seconds calls for
TypeFor(seconds) == IF seconds <= 60 THEN "Shorts" ELSE "Normal"

TypeAgrees(table) ==
    \A id \in DOMAIN table :
        /\ table[id].Video_Type \in {"Shorts", "Normal"}
        /\ table[id].Video_Type = TypeFor(table[id].Duration)

\* C38: every row of core.yt_api, committed or written in the running transaction,
\* has the Video_Type its stored Duration calls for, never NULL; an UPDATE that
\* core_table issues leaves a row with the Duration and the Video_Type it had, or
\* with the Duration of the staging record and the type of that duration.
C38_TypeAgreesWithDuration ==
    /\ [](TypeAgrees(db.core) /\ TypeAgrees(tx.core))
    /\ [][\A id \in Ids :
            Issues("update", id) /\ run.task = "core" /\ run'.pc = "loop" =>
                LET old == tx.core[id]
                    new == tx'.core[id]
                    seconds == IsoSeconds(run.rows[run.i]["Duration"])
                IN  \/ new.Duration = old.Duration /\ new.Video_Type = old.Video_Type
                    \/ new.Duration = seconds /\ new.Video_Type = TypeFor(seconds)]_vars

\* a core run committed an update that took a video from Normal to Shorts
C38_Witness ==
    /\ Returned /\ run.task = "core" /\ run.updated >= 1
    /\ \E id \in DOMAIN db.core \cap DOMAIN run.before.core :
          /\ run.before.core[id].Video_Type = "Normal"
          /\ db.core[id].Video_Type = "Shorts"
          /\ db.core[id].Duration <= 60

-----------------------------------------------------------------------------
(* Properties of two staging_table runs at once *)

\* the runs of the pair that have loaded their snapshot
Started == {r \in Runs : overlap[r].pc # "idle"}

\* run r commits in this step
Commits(r) == overlap[r].pc = "commit" /\ overlap'[r].pc = "returned"

\* C39 as claimed: whatever a run of the pair commits, the committed staging.yt_api
\* holds exactly the valid source ids of one of the runs that have started.
C39_OverlappingRunsSerialize ==
    [][\A r \in Runs :
         Commits(r) =>
            \E q \in Started : DOMAIN db'.staging = ValidIds("staging", overlap[q].rows)]_vars

\* C39 amended: a run commits the INSERT of a Video_ID only when no committed row
\* has that id (one row per Video_ID), and every Video_ID of the committed table
\* after a commit is a valid source id of some run of the pair that has started.
\* The committed key set need not be that of one run: a run never deletes the ids
\* the other run committed after it had read the key set.
C39_OneRowPerIdNoForeignIds ==
    [][\A r \in Runs :
         Commits(r) =>
            /\ overlap[r].new \cap DOMAIN db.staging = {}
            /\ overlap[r].new \subseteq DOMAIN db'.staging
            /\ \A id \in DOMAIN db'.staging :
                   \E q \in Started : id \in ValidIds("staging", overlap[q].rows)]_vars

\* both runs read an empty key set, one loaded a snapshot of video A alone and the
\* other one of video B alone, and both committed: the table holds A and B
C39_Witness ==
    /\ \A r \in Runs : overlap[r].pc = "returned" /\ overlap[r].inserted = 1
                        /\ overlap[r].table_ids = overlap[r].new
    /\ ValidIds("staging", overlap[1].rows) = {"A"}
    /\ ValidIds("staging", overlap[2].rows) = {"B"}
    /\ DOMAIN db.staging = {"A", "B"}

====
